---- MODULE Spec2Model ----
(***************************************************************************)
(* Model of the featherbone server core: the request pipeline of          *)
(* server/datasource.js (transaction wrapping, before/after trigger walk, *)
(* commit/rollback) over the CRUD services of server/services/crud.js     *)
(* (doSelect, doInsert, doUpdate, doDelete, lock, unlock).                *)
(*                                                                         *)
(* The database is a table of object rows plus the change log.  The       *)
(* request's pooled client sees the committed rows overlaid with the      *)
(* rows its open transaction has written; lock/unlock calls made through  *)
(* datasource.lock/unlock run on their own connection in autocommit.      *)
(***************************************************************************)
EXTENDS Integers, Sequences, FiniteSets, Bags, TLC

\* ------------------------------------------------------------------ bounds
MaxPk == 4          \* rows the object table can hold (3 seeded + inserts)
MaxReqs == 2        \* top-level requests per behaviour
MaxLockCalls == 2   \* datasource.lock / unlock calls per behaviour

\* ------------------------------------------------------------- value sets
Pks == 1..MaxPk
Keys == {"k1", "k2"}
NoKey == ""                 \* request carries no eventkey (undefined)
NodeId == "n1"              \* db.nodeId of this server node
MissingId == 99             \* an id no row ever has
FirstToken == 10            \* createId() results are FirstToken + 1, + 2, ...

NoLock == [username |-> "", nodeid |-> "", eventkey |-> ""]
NoRow == [feather |-> "", id |-> 0, isDeleted |-> FALSE, lock |-> NoLock,
          etag |-> 0, name |-> "", parent |-> 0]

\* ---------------------------------------------------------------- catalog
\* The feathers the model runs on.  Document carries the etag property,
\* Folder and Line inherit directly from Object and have none; Order has
\* the parentOf array "lines" of Line children.  On Contact the property
\* name is a natural key (isNaturalKey, no autonumber).
FeatherNames == {"Object", "Document", "Order", "Line", "Folder", "Contact"}

Catalog ==
  [n \in FeatherNames |->
     CASE n = "Object"   -> [inherits |-> "", isChild |-> FALSE,
                             etag |-> FALSE, parentOf |-> ""]
       [] n = "Document" -> [inherits |-> "Object", isChild |-> FALSE,
                             etag |-> TRUE, parentOf |-> ""]
       [] n = "Order"    -> [inherits |-> "Document", isChild |-> FALSE,
                             etag |-> TRUE, parentOf |-> "Line"]
       [] n = "Line"     -> [inherits |-> "Object", isChild |-> TRUE,
                             etag |-> FALSE, parentOf |-> ""]
       [] OTHER          -> [inherits |-> "Object", isChild |-> FALSE,
                             etag |-> FALSE, parentOf |-> ""]]

\* fp.isNaturalKey && !fp.autonumber holds for the property name
NaturalKey(n) == n = "Contact"

\* tools.types.string.default: the value of a string property the data of
\* a POST does not carry
StringDefault == ""

\* The values a property can hold besides a string: null, and undefined
\* for a key a patch removed
Null == "<null>"
Undefined == "<undefined>"

\* props.name.isRequired
Required(n) == n \in {"Order", "Folder"}

\* Whether the column name of the feather's table is declared NOT NULL.
\* The tables are created outside this code; one table of each kind is
\* considered.
NotNullColumn(n) == n = "Folder"

\* A query parameter: undefined is sent as NULL
toParam(value) == IF value = Undefined THEN Null ELSE value

\* feather.inherits || "Object"
ParentOfFeather(n) ==
  IF Catalog[n].inherits = "" THEN "Object" ELSE Catalog[n].inherits

\* Table inheritance: a row of feather f is a row of the table of every
\* feather f inherits from (SELECT ... FROM <table> sees descendants).
RECURSIVE InTable(_, _)
InTable(f, table) ==
  IF f = table THEN TRUE
  ELSE IF f = "Object" \/ f = "" THEN FALSE
  ELSE InTable(ParentOfFeather(f), table)

\* ------------------------------------------------------------- getFeather
\* The feathers store: for each feather the properties it declares. A
\* property is an object of the store; getFeather hands out references to
\* these objects and writes inheritedFrom on them.
PropKeys == {"id", "name", "etag", "lines"}
NoProp == [declared |-> FALSE, inheritedFrom |-> ""]
NoFeathers == [n \in FeatherNames |-> [k \in PropKeys |-> NoProp]]
NoResultProp == [present |-> FALSE, owner |-> ""]
NoFeather == [name |-> "", inherited |-> FALSE,
              props |-> [k \in PropKeys |->
                          [present |-> FALSE, owner |-> "",
                           inheritedFrom |-> ""]]]

\* appendParent(child, parent): the ancestors of parent are appended
\* first; then every property of parent the child does not have yet is
\* taken over (childProps[key] = parentProps[key]) and marked on the
\* shared object (childProps[key].inheritedFrom = parent)
RECURSIVE appendParent(_, _, _)
appendParent(st, child, parent) ==
  LET up == IF parent # "Object"
            THEN appendParent(st, child, ParentOfFeather(parent))
            ELSE [st |-> st, child |-> child]
      take == {k \in PropKeys :
                 up.st[parent][k].declared /\ ~up.child[k].present}
  IN [st |-> [up.st EXCEPT ![parent] =
                [k \in PropKeys |->
                   IF k \in take
                   THEN [up.st[parent][k] EXCEPT !.inheritedFrom = parent]
                   ELSE up.st[parent][k]]],
      child |-> [k \in PropKeys |->
                   IF k \in take THEN [present |-> TRUE, owner |-> parent]
                   ELSE up.child[k]]]

\* getFeather(name, includeInherited): the inherited properties, then the
\* feather's own properties put back in. Each property of the result is
\* the object of the feather it was taken from (owner), read with the
\* inheritedFrom that object carries when the call returns.
getFeather(st, name, includeInherited) ==
  LET start == [k \in PropKeys |-> NoResultProp]
      inh == IF includeInherited /\ name # "Object"
             THEN appendParent(st, start, ParentOfFeather(name))
             ELSE [st |-> st, child |-> start]
      child == [k \in PropKeys |->
                  IF inh.st[name][k].declared
                  THEN [present |-> TRUE, owner |-> name]
                  ELSE inh.child[k]]
  IN [st |-> inh.st,
      props |-> [k \in PropKeys |->
                   [present |-> child[k].present,
                    owner |-> child[k].owner,
                    inheritedFrom |->
                      IF child[k].present
                      THEN inh.st[child[k].owner][k].inheritedFrom
                      ELSE ""]]]

\* f.createId(): an identifier that was not handed out before
createId(seq) == seq + 1

\* ------------------------------------------------------------------ state
VARIABLES
  rows,        \* committed object rows, by _pk
  log,         \* committed change-log entries [objectId, action]
  tx,          \* the request client's transaction: wrapped flag and writes
  pkSeq,       \* object__pk_seq (sequences are not transactional)
  tokSeq,      \* source of createId() tokens
  registered,  \* registered triggers <<method, feather, position>>
  grants,      \* actions the requesting user is authorized for
  req,         \* the top-level request in flight
  trace,       \* BEGIN / trigger / CRUD / COMMIT / ROLLBACK events of req
  lockers,     \* datasource.lock calls in flight, per caller
  nReq,        \* requests started
  nLock,       \* lock / unlock calls started
  lastLock,    \* outcome of the lock call that completed last
  hist,        \* outcome of the completed DELETE requests, by object id
  subs,        \* the "$subscription" table
  subCall,     \* the subscribe / unsubscribe / select call that ran last
  feathers,    \* the feathers store getFeather reads (and writes)
  lastFeather, \* what the last getFeather call returned
  conn         \* the changeUserInfo call and its client

vars == <<rows, log, tx, pkSeq, tokSeq, registered, grants, req, trace,
          lockers, nReq, nLock, lastLock, hist,
          subs, subCall, feathers, lastFeather, conn>>

Callers == {"c1", "c2"}
TRIGGER_BEFORE == 1
TRIGGER_AFTER == 2
Actions == {"canCreate", "canRead", "canUpdate", "canDelete"}

\* ------------------------------------------------------- database access
\* What the request's client reads: committed rows overlaid with the rows
\* written in its open transaction, and the log with its own entries.
View ==
  [rows |-> [pk \in Pks |-> IF pk \in tx.touched THEN tx.rows[pk]
                                                ELSE rows[pk]],
   log |-> log \o tx.log]

\* Variant of Visible without the NOT is_deleted clause
VisibleDeleted(v, pk, table, showDeleted, su) ==
  /\ v.rows[pk].feather # ""
  /\ InTable(v.rows[pk].feather, table)
  /\ su = "false" => "canRead" \in grants
\* Rows a statement on table `table` can see: NOT is_deleted unless
\* showDeleted, and the canRead join of buildAuthSql only when the caller
\* passed isSuperUser === false.
Visible(v, pk, table, showDeleted, su) ==
  /\ v.rows[pk].feather # ""
  /\ InTable(v.rows[pk].feather, table)
  /\ showDeleted \/ ~v.rows[pk].isDeleted
  /\ su = "false" => "canRead" \in grants

\* tools.getKeys with the single criterion id = value
KeysById(v, table, id, showDeleted, su) ==
  {pk \in Pks : Visible(v, pk, table, showDeleted, su) /\ v.rows[pk].id = id}

\* tools.getKey: keys[0], 0 standing for undefined
getKey(v, table, id, showDeleted, su) ==
  LET ks == KeysById(v, table, id, showDeleted, su)
  IN IF ks = {} THEN 0 ELSE CHOOSE pk \in ks : \A q \in ks : pk <= q

\* tools.getKeys without criteria (optionally by back reference to a parent)
getKeys(v, table, parent, showDeleted, su) ==
  {pk \in Pks : /\ Visible(v, pk, table, showDeleted, su)
                /\ parent # 0 => v.rows[pk].parent = parent}

\* The row with the given id as the request's client sees it (NoRow if none)
RowOf(v, id) ==
  LET k == getKey(v, "Object", id, TRUE, "undef")
  IN IF k = 0 THEN NoRow ELSE v.rows[k]

\* --------------------------------------------------------------- events
\* A row of "$subscription": (nodeid, sessionid, subscriptionid, objectid).
\* objectid holds an object id or the table name of a feather; the two are
\* kept apart here as the fields of a target.
ObjTarget(id) == [id |-> id, table |-> ""]
TableTarget(t) == [id |-> 0, table |-> t]
SubRow(sub, target) ==
  [nodeid |-> sub.nodeId, sessionid |-> sub.sessionId,
   subscriptionid |-> sub.id, objectid |-> target]

\* String.prototype.toSnakeCase on the feather names of the catalog
toSnakeCase(name) ==
  CASE name = "Object"   -> "object"
    [] name = "Document" -> "document"
    [] name = "Order"    -> "order"
    [] name = "Line"     -> "line"
    [] name = "Folder"   -> "folder"
    [] name = "Contact"  -> "contact"
    [] OTHER -> name

\* The table: a bag of rows, and whether the table declares the four
\* columns as its key (the table is created outside this code, both
\* declarations are considered).
NoSubs == [keyed |-> FALSE, rows |-> EmptyBag]
\* No subscription in the payload (undefined)
NoSub == [given |-> FALSE, nodeId |-> "", sessionId |-> "", id |-> "",
          merge |-> FALSE]
SubRows(tbl) == BagToSet(tbl.rows)
RowsOf(tbl, subid) == {r \in SubRows(tbl) : r.subscriptionid = subid}
TargetsOf(tbl, subid) == {r.objectid : r \in RowsOf(tbl, subid)}

\* events.unsubscribe: DELETE FROM "$subscription" WHERE <type>id = $1;
\* an empty id resolves without a query
unsubscribe(tbl, id, type) ==
  IF id = "" THEN tbl
  ELSE LET keep == {r \in SubRows(tbl) :
                      CASE type = "subscription" -> r.subscriptionid # id
                        [] type = "session" -> r.sessionid # id
                        [] OTHER -> r.nodeid # id}
       IN [tbl EXCEPT !.rows = [r \in keep |-> tbl.rows[r]]]

\* INSERT ... ON CONFLICT DO NOTHING, one per id: a row that conflicts
\* with the key is skipped, without a key nothing conflicts
insertIds(tbl, sub, ids) ==
  LET new == {SubRow(sub, ObjTarget(i)) : i \in ids}
      add == IF tbl.keyed THEN new \ SubRows(tbl) ELSE new
  IN [tbl EXCEPT !.rows = tbl.rows (+) SetToBag(add)]

\* INSERT INTO "$subscription" VALUES ($1, $2, $3, $4); for the feather:
\* a row that conflicts with the key fails the statement
insertTable(tbl, sub, tablename) ==
  IF tablename = "" THEN [ok |-> TRUE, tbl |-> tbl]
  ELSE LET row == SubRow(sub, TableTarget(toSnakeCase(tablename)))
       IN IF tbl.keyed /\ row \in SubRows(tbl)
          THEN [ok |-> FALSE, tbl |-> tbl]
          ELSE [ok |-> TRUE,
                tbl |-> [tbl EXCEPT !.rows = tbl.rows (+) SetToBag({row})]]

\* doSubscribe: the id inserts, then the feather insert, each its own
\* statement on the client
doSubscribe(tbl, sub, ids, tablename) ==
  insertTable(insertIds(tbl, sub, ids), sub, tablename)

\* Variant of subscribe: earlier rows are kept whatever merge says
subscribeKeeps(tbl, sub, ids, tablename) ==
  IF ~sub.given THEN [ok |-> TRUE, tbl |-> tbl]
  ELSE IF sub.nodeId = "" \/ sub.sessionId = "" \/ sub.id = ""
  THEN [ok |-> FALSE, tbl |-> tbl]
  ELSE doSubscribe(tbl, sub, ids, tablename)
\* events.subscribe: no subscription resolves; a missing nodeId, sessionId
\* or id throws; merge keeps the earlier rows, otherwise the rows of the
\* subscription id are deleted first
subscribe(tbl, sub, ids, tablename) ==
  IF ~sub.given THEN [ok |-> TRUE, tbl |-> tbl]
  ELSE IF sub.nodeId = "" \/ sub.sessionId = "" \/ sub.id = ""
  THEN [ok |-> FALSE, tbl |-> tbl]
  ELSE IF sub.merge THEN doSubscribe(tbl, sub, ids, tablename)
  ELSE doSubscribe(unsubscribe(tbl, sub.id, "subscription"), sub, ids,
                   tablename)

\* The record of a call: its arguments, the table before it, its outcome
\* (select: the call was made by doSelect)
NoSubCall == [op |-> "", select |-> FALSE, sub |-> NoSub, ids |-> {},
              table |-> "", type |-> "", before |-> NoSubs, ok |-> FALSE]

\* A filter of a payload: criteria and limit are properties that may be
\* absent. A criterion compares property name or lock with a value that
\* is a string, null, or an object without id ({}).
NoFilter == [given |-> FALSE, hasCriteria |-> FALSE, criteria |-> <<>>,
             hasLimit |-> FALSE, limit |-> 0]
Criterion(p, k, s) == [property |-> p, kind |-> k, value |-> s]
\* `if (filter.limit)`: undefined and 0 are both falsy
limitSet(filter) == filter.hasLimit /\ filter.limit # 0

\* The part getKeys builds for one criterion: an object value without id
\* becomes "<column> IS NULL", a string is compared with "=". lock is NULL
\* on a row nobody locked; name always holds a string.
matches(row, where) ==
  IF where.kind = "string"
  THEN where.property = "name" /\ row.name = where.value
  ELSE where.property = "lock" /\ row.lock = NoLock

\* `typeof where.value === "object" && !where.value.id`: typeof null is
\* "object", and reading id of null throws a TypeError
criterionThrows(where) == where.kind = "null"

\* tools.getKeys with a filter: the try block rejects with what a criterion
\* threw; LIMIT is appended only when filter.limit is truthy and, no sort
\* being given, keeps any `limit` of the rows. sets holds the key sets the
\* query may return.
getKeysFiltered(v, table, filter, showDeleted, su) ==
  LET criteria == IF filter.given /\ filter.hasCriteria
                  THEN filter.criteria ELSE <<>>
      all == {pk \in Pks :
                /\ Visible(v, pk, table, showDeleted, su)
                /\ \A i \in DOMAIN criteria :
                     matches(v.rows[pk], criteria[i])}
      n == IF filter.limit < Cardinality(all) THEN filter.limit
           ELSE Cardinality(all)
  IN IF \E i \in DOMAIN criteria : criterionThrows(criteria[i])
     THEN [ok |-> FALSE, err |-> "TypeError", sets |-> {}]
     ELSE [ok |-> TRUE, err |-> "",
           sets |-> IF filter.given /\ limitSet(filter)
                    THEN {S \in SUBSET all : Cardinality(S) = n}
                    ELSE {all}]

\* tools.sanitize applied to a lock: the keys starting with "_"
\* (_nodeid, _eventkey) are removed, username stays.
sanitizeLock(l) == [username |-> l.username, nodeid |-> "", eventkey |-> ""]

\* Variant of isAuthorized that grants every action
isAuthorizedAlways(action) == TRUE
\* The answer of feathers.isAuthorized for the requesting user: whether the
\* authorization tables grant the action
isAuthorized(action) == action \in grants

\* ------------------------------------------------------------ CRUD: read
\* Result of a CRUD service: ok = resolved, err / user = the rejection,
\* v = the database as the client sees it afterwards, tok / pk = the
\* sequences afterwards, ids = the ids a GET returned.
Res(ok, err, user, v, tok, pk, ids) ==
  [ok |-> ok, err |-> err, user |-> user, v |-> v, tok |-> tok, pk |-> pk,
   ids |-> ids]

\* crud.doSelect with payload.id (afterGetKey): one row by key, or
\* undefined (found = FALSE).  Only the columns of the SELECT list are
\* mapped; the parentOf arrays are not loaded on this path (hasLines FALSE).
doSelectOne(v, name, id, showDeleted, isChild, su) ==
  IF ~isChild /\ Catalog[name].isChild /\ su # "true"
  THEN [ok |-> FALSE, err |-> "Can not query directly on a child class",
        found |-> FALSE, row |-> NoRow, hasLines |-> FALSE, lines |-> {}]
  ELSE LET key == getKey(v, name, id, showDeleted, su)
       IN [ok |-> TRUE, err |-> "", found |-> key # 0,
           row |-> IF key = 0 THEN NoRow ELSE v.rows[key],
           hasLines |-> FALSE, lines |-> {}]

\* selectToMany: the ids of the children of row pk, a nested doSelect
\* called with isChild = true, isSuperUser = true and no showDeleted.
selectToMany(v, name, pk) ==
  IF Catalog[name].parentOf = "" THEN {}
  ELSE {v.rows[c].id : c \in getKeys(v, Catalog[name].parentOf, pk, FALSE,
                                     "true")}

\* crud.doSelect without id (afterGetKeys): the ids of the visible rows
doSelectList(v, name, showDeleted, isChild, su) ==
  IF ~isChild /\ Catalog[name].isChild /\ su # "true"
  THEN Res(FALSE, "Can not query directly on a child class", "", v, 0, 0, {})
  ELSE Res(TRUE, "", "", v, 0, 0,
           {v.rows[k].id : k \in getKeys(v, name, 0, showDeleted, su)})

\* ---------------------------------------------------------- CRUD: delete
\* The rejection of afterDoSelect for a locked record: oldRec is the
\* sanitized result of doSelect, so oldRec.lock has lost _eventkey.
deleteLocked(oldLock, eventkey) ==
  oldLock.username # "" /\ oldLock.eventkey # eventkey

\* crud.doDelete, with the recursion into the rows of each parentOf array
\* (deleteChildren) ahead of the delete of the parent row.
RECURSIVE doDelete(_, _, _, _, _, _, _, _, _)
RECURSIVE deleteChildren(_, _, _, _, _, _)
deleteChildren(v, rel, ids, isHard, tok, pk) ==
  IF ids = {} THEN Res(TRUE, "", "", v, tok, pk, {})
  ELSE LET c == CHOOSE i \in ids : \A j \in ids : i <= j
           r == doDelete(v, rel, c, NoKey, isHard, TRUE, "undef", tok, pk)
       IN IF ~r.ok THEN r
          ELSE deleteChildren(r.v, rel, ids \ {c}, isHard, tok, pk)

doDelete(v, name, id, eventkey, isHard, isChild, su, tok, pk) ==
  IF ~isChild /\ Catalog[name].isChild
  THEN Res(FALSE, "Can not directly delete a child class", "", v, tok, pk, {})
  ELSE IF su = "false" /\ ~isAuthorized("canDelete")
  THEN Res(FALSE, "Not authorized to delete", "", v, tok, pk, {})
  ELSE
    LET sel == doSelectOne(v, name, id, TRUE, TRUE, "undef")
        oldLock == sanitizeLock(sel.row.lock)
        kids == deleteChildren(v, Catalog[name].parentOf, sel.lines, isHard,
                               tok, pk)
        key == getKey(kids.v, "Object", id, TRUE, "undef")
        deleted == [kids.v EXCEPT !.rows[key] =
                      IF isHard THEN NoRow
                      ELSE [kids.v.rows[key] EXCEPT !.isDeleted = TRUE]]
        logged == IF isChild \/ isHard THEN deleted
                  ELSE [deleted EXCEPT !.log =
                          Append(@, [objectId |-> id, action |-> "DELETE"])]
    IN IF ~sel.found
       THEN Res(FALSE, "Record not found", "", v, tok, pk, {})
       ELSE IF sel.row.isDeleted
       THEN Res(FALSE, "Record already deleted", "", v, tok, pk, {})
       ELSE IF deleteLocked(oldLock, eventkey)
       THEN Res(FALSE, "Record is locked by", oldLock.username, v, tok, pk, {})
       ELSE IF Catalog[name].parentOf # "" /\ ~sel.hasLines
       THEN \* oldRec[key].length with oldRec[key] undefined
            Res(FALSE, "TypeError", "", v, tok, pk, {})
       ELSE IF ~kids.ok THEN kids
       ELSE Res(TRUE, "", "", logged, tok, pk, {})

\* ------------------------------------------------- natural-key probe
NotUnique == "is not unique to data type"

\* The uniqueness probe of doInsert and doUpdate: tools.getKeys on the
\* feather of the natural key with the criterion name = value.  A value
\* that is undefined (defined = FALSE) is sent as a NULL parameter, and
\* name = NULL selects no row.
uniqueProbe(v, feather, defined, value) ==
  IF ~defined THEN {}
  ELSE {k \in Pks : /\ v.rows[k] # NoRow
                    /\ InTable(v.rows[k].feather, feather)
                    /\ ~v.rows[k].isDeleted
                    /\ v.rows[k].name = value}

\* ---------------------------------------------------------- CRUD: update
\* jsonpatch.applyPatch of a list of replace operations on /name
RECURSIVE applyPatch(_, _)
applyPatch(rec, patches) ==
  IF patches = <<>> THEN rec
  ELSE applyPatch([rec EXCEPT !.name = Head(patches).value], Tail(patches))

\* The lock test of doUpdate.afterDoSelect.  It reads the closure variable
\* oldRec, which is assigned only after the test (oldRec = tools.sanitize
\* (resp) follows it), so oldRecDefined is FALSE when the test runs.
updateLocked(oldRecDefined, oldLock, eventkey) ==
  oldRecDefined /\ oldLock.username # "" /\ oldLock.eventkey # eventkey

\* Variant of unlockById that leaves the lock in place
unlockByIdKeeps(v, id) == v
\* crud.unlock(client, {id}): UPDATE object SET lock = NULL WHERE id = $1
unlockById(v, id) ==
  [v EXCEPT !.rows = [p \in Pks |->
     IF v.rows[p].feather # "" /\ v.rows[p].id = id
     THEN [v.rows[p] EXCEPT !.lock = NoLock] ELSE v.rows[p]]]

\* Variant of requiredIsNull that lets null through
requiredIsNullNever(name, value) == FALSE
\* props[fkey].isRequired && updRec[fkey] === null (doUpdate), and
\* prop.isRequired && value === null (doInsert)
requiredIsNull(name, value) == Required(name) /\ value = Null

\* Variant of isEmptyPatch without the early return
isEmptyPatchAlways(patches) == FALSE
\* if (!patches.length) { resolve([]); return; }
isEmptyPatch(patches) == Len(patches) = 0

\* Variant of nextEtag that leaves the etag as it is
nextEtagKept(name, old, tok) == old
\* if (props.etag) { updRec.etag = f.createId(); }
nextEtag(name, old, tok) ==
  IF Catalog[name].etag THEN createId(tok) ELSE old

\* crud.doUpdate
doUpdate(v, name, id, patches, eventkey, isChild, su, tok, pk) ==
  IF isEmptyPatch(patches) THEN Res(TRUE, "", "", v, tok, pk, {})
  ELSE IF ~isChild /\ Catalog[name].isChild
  THEN Res(FALSE, "Can not directly update a child class", "", v, tok, pk, {})
  ELSE IF su = "false" /\ ~isAuthorized("canUpdate")
  THEN Res(FALSE, "Not authorized to update", "", v, tok, pk, {})
  ELSE
    LET key == getKey(v, "Object", id, FALSE, "undef")
        sel == doSelectOne(v, name, id, FALSE, isChild, "undef")
        oldRec == [sel.row EXCEPT !.lock = sanitizeLock(@)]
        newRec == applyPatch(oldRec, patches)
        etag == nextEtag(name, oldRec.etag, tok)
        tok2 == IF Catalog[name].etag THEN createId(tok) ELSE tok
        updated == [v EXCEPT !.rows[key] =
                      [@ EXCEPT !.name = toParam(newRec.name),
                                !.etag = etag]]
        logged == [updated EXCEPT !.log =
                     Append(@, [objectId |-> id, action |-> "PATCH"])]
    IN IF ~sel.ok THEN Res(FALSE, sel.err, "", v, tok, pk, {})
       ELSE IF updateLocked(FALSE, sel.row.lock, eventkey)
       THEN Res(FALSE, "Record is locked by", sel.row.lock.username, v, tok,
                pk, {})
       ELSE IF ~sel.found
       THEN \* tools.sanitize(undefined): JSON.parse(undefined) throws
            Res(FALSE, "SyntaxError", "", v, tok, pk, {})
       ELSE IF requiredIsNull(name, newRec.name)
       THEN Res(FALSE, "is required", "", v, tok, pk, {})
       ELSE IF /\ NaturalKey(name)
               /\ newRec.name # oldRec.name
               /\ uniqueProbe(v, name, TRUE, newRec.name) # {}
       THEN Res(FALSE, NotUnique, "", v, tok, pk, {})
       ELSE IF /\ NotNullColumn(name)
               /\ newRec.name # oldRec.name
               /\ toParam(newRec.name) = Null
       THEN \* the UPDATE fails on the column's constraint
            Res(FALSE, "null value in column", "", v, tok2, pk, {})
       ELSE IF isChild THEN Res(TRUE, "", "", updated, tok2, pk, {})
       ELSE Res(TRUE, "", "", unlockById(logged, id), tok2, pk, {})

\* ---------------------------------------------------------- CRUD: insert
\* crud.doInsert of a record with the scalar property name: data is the
\* list of the properties given (none, or name), dataId is data.id (0 when
\* the data has no id).
doInsert(v, name, data, dataId, isChild, su, tok, pk) ==
  IF NaturalKey(name)
     /\ uniqueProbe(v, name, data # <<>>,
                    IF data = <<>> THEN "" ELSE data[1].value) # {}
  THEN Res(FALSE, NotUnique, "", v, tok, pk, {})
  ELSE IF ~isChild /\ su = "false" /\ ~isAuthorized("canCreate")
  THEN Res(FALSE, "Not authorized to create", "", v, tok, pk, {})
  ELSE
    LET fresh == dataId = 0 \/ getKey(v, "Object", dataId, FALSE, "true") # 0
        id == IF fresh THEN createId(tok) ELSE dataId
        tok1 == IF fresh THEN id ELSE tok
        etag == IF Catalog[name].etag THEN createId(tok1) ELSE 0
        tok2 == IF Catalog[name].etag THEN etag ELSE tok1
        value == IF data = <<>> THEN StringDefault ELSE data[1].value
        key == pk + 1
        row == [feather |-> name, id |-> id, isDeleted |-> FALSE,
                lock |-> NoLock, etag |-> etag, name |-> value, parent |-> 0]
        inserted == [v EXCEPT !.rows[key] = row]
        sel == doSelectOne(inserted, name, id, FALSE, FALSE, "undef")
        logged == [inserted EXCEPT !.log =
                     Append(@, [objectId |-> id, action |-> "POST"])]
    IN IF requiredIsNull(name, value)
       THEN \* afterHandleRelations, the key taken from the sequence
            Res(FALSE, "is required", "", v, tok2, key, {})
       ELSE IF isChild THEN Res(TRUE, "", "", inserted, tok2, key, {})
       ELSE IF ~sel.ok THEN Res(FALSE, sel.err, "", inserted, tok2, key, {})
       ELSE Res(TRUE, "", "", logged, tok2, key, {id})

\* -------------------------------------------------- CRUD: parentOf arrays
\* The array a payload carries under the parentOf key "lines": absent, or
\* rows [id, name, known]. id is 0 for a row without id; known is FALSE for
\* a row with a property the feather of the rows does not contain. order
\* is the order in which the doInsert calls started for the rows complete:
\* they run interleaved on the one client.
NoLines == [given |-> FALSE, rows |-> <<>>, order |-> <<>>]
NoLate == [rows |-> <<>>, rel |-> "", pk |-> 0, of |-> 0]

\* The result of a service with the statements it issued on the client
\* (op, feather, id) and the rows of the array whose doInsert is still
\* running when it settles
WithStmts(r, stmts, late) ==
  [ok |-> r.ok, err |-> r.err, user |-> r.user, v |-> r.v, tok |-> r.tok,
   pk |-> r.pk, ids |-> r.ids, stmts |-> stmts, late |-> late]

\* The back reference of an inserted row of the array: the parent's key
\* (obj.pk)
stamped(r, parentPk) ==
  IF ~r.ok THEN r
  ELSE [r EXCEPT !.v.rows[r.pk].parent = parentPk,
                 !.ids = {r.v.rows[r.pk].id}]

\* crud.doInsert({pk, name: rel, data: row}, true) for one row of the
\* array: afterGetFeather rejects a property the feather does not contain
insertChild(v, rel, parentPk, row, tok, pk) ==
  IF ~row.known
  THEN Res(FALSE, "does not contain property", "", v, tok, pk, {})
  ELSE stamped(doInsert(v, rel, <<[path |-> "name", value |-> row.name]>>,
                        row.id, TRUE, "undef", tok, pk), parentPk)

\* doInsert.insertChildren: a doInsert per row, r being the outcome of the
\* one that completes first; the first rejection rejects, the calls that
\* have not completed by then go on (late)
RECURSIVE insertChildren(_, _, _, _, _, _, _)
insertRest(r, rel, parentPk, ary, order) ==
  IF ~r.ok
  THEN WithStmts(r, <<>>, [i \in 1..Len(Tail(order)) |->
                             ary[Tail(order)[i]]])
  ELSE LET rest == insertChildren(r.v, rel, parentPk, ary, Tail(order),
                                  r.tok, r.pk)
       IN WithStmts(rest,
                    <<[op |-> "INSERT", feather |-> rel,
                       id |-> CHOOSE i \in r.ids : TRUE]>>
                      \o rest.stmts,
                    rest.late)
insertChildren(v, rel, parentPk, ary, order, tok, pk) ==
  IF order = <<>>
  THEN WithStmts(Res(TRUE, "", "", v, tok, pk, {}), <<>>, <<>>)
  ELSE insertRest(insertChild(v, rel, parentPk, ary[Head(order)], tok, pk),
                  rel, parentPk, ary, order)

\* Variant of afterInsert that does not wait for the rows: the INSERT of
\* the parent row is issued ahead of theirs
afterInsertFirst(name, p, kids) ==
  IF ~kids.ok
  THEN WithStmts(Res(FALSE, kids.err, "", kids.v, kids.tok, kids.pk, {}),
                 kids.stmts, kids.late)
  ELSE WithStmts(Res(TRUE, "", "",
                     [kids.v EXCEPT !.rows[p.pk] = p.v.rows[p.pk],
                                    !.log = p.v.log],
                     kids.tok, kids.pk, p.ids),
                 <<[op |-> "INSERT", feather |-> name,
                    id |-> CHOOSE i \in p.ids : TRUE]>>
                   \o kids.stmts,
                 <<>>)

\* doInsert.afterInsert: once every row has reported back the INSERT of
\* the parent row is issued (p is the insert of the parent row with its
\* log entry, kids the outcome of insertChildren)
afterInsert(name, p, kids) ==
  IF ~kids.ok
  THEN WithStmts(Res(FALSE, kids.err, "", kids.v, kids.tok, kids.pk, {}),
                 kids.stmts, kids.late)
  ELSE WithStmts(Res(TRUE, "", "",
                     [kids.v EXCEPT !.rows[p.pk] = p.v.rows[p.pk],
                                    !.log = p.v.log],
                     kids.tok, kids.pk, p.ids),
                 kids.stmts
                   \o <<[op |-> "INSERT", feather |-> name,
                          id |-> CHOOSE i \in p.ids : TRUE]>>,
                 <<>>)

\* doInsert from buildInsert on: the children are inserted ahead of the
\* parent row, on the database as it was (v)
buildInsert(v, name, lines, p) ==
  IF ~p.ok THEN WithStmts(p, <<>>, <<>>)
  ELSE afterInsert(name, p,
                   insertChildren(v, Catalog[name].parentOf, p.pk,
                                  lines.rows, lines.order, p.tok, p.pk))

\* crud.doInsert of data with the array: the checks, nextval and the
\* values of the parent row first, then insertChildren, and the INSERT of
\* the parent row once afterInsert has counted every row
doInsertLines(v, name, data, lines, dataId, isChild, su, tok, pk) ==
  IF Catalog[name].parentOf = ""
  THEN WithStmts(Res(FALSE, "does not contain property", "", v, tok, pk, {}),
                 <<>>, <<>>)
  ELSE buildInsert(v, name, lines,
                   doInsert(v, name, data, dataId, isChild, su, tok, pk))

\* One row of the new array (doUpdate.nextProp): a row whose id an old row
\* has is patched with the difference (when there is one), any other row
\* is inserted with its back reference
updateChild(v, rel, parentPk, old, row, tok, pk) ==
  IF row.id # 0 /\ row.id \in old
  THEN IF RowOf(v, row.id).name = row.name
       THEN Res(TRUE, "", "", v, tok, pk, {})
       ELSE doUpdate(v, rel, row.id,
                     <<[path |-> "name", value |-> row.name]>>, NoKey, TRUE,
                     "undef", tok, pk)
  ELSE insertChild(v, rel, parentPk, row, tok, pk)

\* The rows of the new array in turn, r being the outcome of the child
\* operations before them (the deletes of the old rows the new array has
\* no id for come first)
RECURSIVE updateChildren(_, _, _, _, _)
updateChildren(r, rel, parentPk, old, ary) ==
  IF ~r.ok \/ ary = <<>> THEN r
  ELSE updateChildren(updateChild(r.v, rel, parentPk, old, Head(ary),
                                  r.tok, r.pk),
                      rel, parentPk, old, Tail(ary))

\* doUpdate.afterProperties: the child operations, then the UPDATE of the
\* parent row (p is the update of the parent row with its log entry)
afterProperties(key, p, kids) ==
  IF ~kids.ok THEN kids
  ELSE Res(TRUE, "", "",
           [kids.v EXCEPT !.rows[key] = p.v.rows[key], !.log = p.v.log],
           kids.tok, kids.pk, {})

\* doUpdate.nextProp at the key of the array: oldRec[key].forEach throws
\* when oldRec has no array (sel.hasLines FALSE)
nextProp(v, name, id, lines, p, sel, tok, pk) ==
  IF ~p.ok THEN p
  ELSE IF Catalog[name].parentOf = "" \/ ~sel.hasLines
  THEN Res(FALSE, "TypeError", "", v, p.tok, pk, {})
  ELSE afterProperties(
         getKey(v, "Object", id, FALSE, "undef"), p,
         updateChildren(
           deleteChildren(v, Catalog[name].parentOf,
                          sel.lines \ {lines.rows[i].id :
                                         i \in DOMAIN lines.rows},
                          FALSE, p.tok, pk),
           Catalog[name].parentOf, getKey(v, "Object", id, FALSE, "undef"),
           sel.lines, lines.rows))

\* crud.doUpdate with a patch that replaces the array. The patch list is
\* not empty, so the checks of doUpdate run as for a patch of name (here
\* one that assigns the name the record has, ahead of the request's); then
\* nextProp reads oldRec[key] of the array on the record doSelect returned
\* by id.
doUpdateLines(v, name, id, patches, lines, eventkey, isChild, su, tok, pk) ==
  WithStmts(nextProp(v, name, id, lines,
                     doUpdate(v, name, id,
                              <<[path |-> "name",
                                 value |-> RowOf(v, id).name]>> \o patches,
                              eventkey, isChild, su, tok, pk),
                     doSelectOne(v, name, id, FALSE, isChild, "undef"),
                     tok, pk),
            <<>>, <<>>)

\* ------------------------------------------------------------ lock calls
IdleLocker == [pc |-> "idle", id |-> 0, user |-> "", key |-> "",
               existed |-> FALSE, saw |-> NoLock]

\* Outcome of the lock call that completed last: what checkLock read
\* (whether the row existed, the lock it held) and what the call resolved.
NoLockCall == [done |-> FALSE, valid |-> FALSE, id |-> 0, key |-> "",
               ok |-> FALSE, existed |-> FALSE, saw |-> NoLock]

\* The (username, eventkey) pairs each caller locks with; "c1" also calls
\* without an event key.
LockArgs(c) == IF c = "c1" THEN {<<"u1", "k1">>, <<"u1", "">>}
               ELSE {<<"u2", "k2">>}
LockIds == {3, MissingId}

\* datasource.lock -> crud.lock: the argument checks
LockStart(c) ==
  /\ lockers[c].pc = "idle"
  /\ nLock < MaxLockCalls
  /\ \E id \in LockIds, a \in LockArgs(c) :
       IF a[2] = ""
       THEN /\ lastLock' = [NoLockCall EXCEPT !.done = TRUE, !.id = id]
            /\ UNCHANGED lockers
       ELSE /\ lockers' = [lockers EXCEPT ![c] =
                 [IdleLocker EXCEPT !.pc = "check", !.id = id,
                                    !.user = a[1], !.key = a[2]]]
            /\ UNCHANGED lastLock
  /\ nLock' = nLock + 1
  /\ UNCHANGED <<rows, log, tx, pkSeq, tokSeq, registered, grants, req,
                 trace, nReq, hist, subs, subCall, feathers, lastFeather,
                 conn>>

\* crud.lock checkLock: SELECT lock FROM object WHERE id = $1
LockedRows(id) == {p \in Pks : rows[p].feather # "" /\ rows[p].id = id}

\* Variant of checkLockRejects that looks only at the row being there
checkLockIgnoresLock(existed, lk) == ~existed
\* checkLock's rejections: "Record ... not found" when the query returns
\* no row, "Record ... is already locked" when the row's lock is set.
checkLockRejects(existed, lk) == ~existed \/ lk # NoLock

LockCheck(c) ==
  /\ lockers[c].pc = "check"
  /\ LET found == LockedRows(lockers[c].id)
         lk == IF found = {} THEN NoLock
               ELSE rows[CHOOSE p \in found : TRUE].lock
     IN IF checkLockRejects(found # {}, lk)
        THEN /\ lockers' = [lockers EXCEPT ![c] = IdleLocker]
             /\ lastLock' = [done |-> TRUE, valid |-> TRUE,
                             id |-> lockers[c].id, key |-> lockers[c].key,
                             ok |-> FALSE, existed |-> found # {},
                             saw |-> lk]
        ELSE /\ lockers' = [lockers EXCEPT ![c] =
                  [@ EXCEPT !.pc = "lock", !.existed = found # {},
                            !.saw = lk]]
             /\ UNCHANGED lastLock
  /\ UNCHANGED <<rows, log, tx, pkSeq, tokSeq, registered, grants, req,
                 trace, nReq, nLock, hist,
                 subs, subCall, feathers, lastFeather, conn>>

\* crud.lock doLock: UPDATE object SET lock = ROW(...) WHERE id = $4.
\* The statement waits while the row is written by an open transaction.
LockDo(c) ==
  /\ lockers[c].pc = "lock"
  /\ LockedRows(lockers[c].id) \cap tx.touched = {}
  /\ rows' = [p \in Pks |->
       IF p \in LockedRows(lockers[c].id)
       THEN [rows[p] EXCEPT !.lock = [username |-> lockers[c].user,
                                      nodeid |-> NodeId,
                                      eventkey |-> lockers[c].key]]
       ELSE rows[p]]
  /\ lockers' = [lockers EXCEPT ![c] = IdleLocker]
  /\ lastLock' = [done |-> TRUE, valid |-> TRUE, id |-> lockers[c].id,
                  key |-> lockers[c].key, ok |-> TRUE,
                  existed |-> lockers[c].existed, saw |-> lockers[c].saw]
  /\ UNCHANGED <<log, tx, pkSeq, tokSeq, registered, grants, req, trace,
                 nReq, nLock, hist, subs, subCall, feathers, lastFeather,
                 conn>>

\* datasource.unlock({eventKey}) -> crud.unlock: the locks of this node
\* taken with the event key are cleared.
Unlock ==
  /\ nLock < MaxLockCalls
  /\ \E k \in Keys :
       LET hit == {p \in Pks : rows[p].lock.eventkey = k
                               /\ rows[p].lock.nodeid = NodeId}
       IN /\ hit \cap tx.touched = {}
          /\ rows' = [p \in Pks |-> IF p \in hit
                                    THEN [rows[p] EXCEPT !.lock = NoLock]
                                    ELSE rows[p]]
  /\ nLock' = nLock + 1
  /\ UNCHANGED <<log, tx, pkSeq, tokSeq, registered, grants, req, trace,
                 lockers, lastLock, nReq, hist,
                 subs, subCall, feathers, lastFeather, conn>>

\* ------------------------------------------------------ request pipeline
\* The done() calls at the end of that.request's chain: close, which
\* calls done(), runs when doRequest resolved; a rejection goes past it.
\* With a client the caller passed there is no close.
closed(ok, external) == IF ok /\ ~external THEN 1 ELSE 0

\* The done() calls of rollback: error(err) calls done() unless the caller
\* passed the client, and rollback calls error only for such a client or
\* when the client is wrapped; otherwise callback(err)
errorDone(wrapped, external) == IF wrapped /\ ~external THEN 1 ELSE 0

IdleReq == [pc |-> "idle", method |-> "", name |-> "", id |-> 0,
            data |-> <<>>, eventkey |-> NoKey, su |-> FALSE,
            showDeleted |-> FALSE, isHard |-> FALSE, basis |-> 0,
            walk |-> "", wrap |-> FALSE, clientSet |-> FALSE,
            hasRecs |-> FALSE, oldRec |-> NoRow, newName |-> "",
            mutated |-> FALSE, external |-> FALSE, upsert |-> FALSE,
            ok |-> FALSE, err |-> "", status |-> 0, user |-> "",
            ids |-> {}, pre |-> <<>>, post |-> <<>>, snap |-> <<>>,
            cache |-> <<>>, prev |-> <<>>, filter |-> NoFilter,
            subscription |-> NoSub, resp |-> <<>>, lines |-> NoLines,
            stmts |-> <<>>, late |-> NoLate, released |-> 0]

NoTx == [open |-> FALSE, rows |-> [p \in Pks |-> NoRow], touched |-> {},
         log |-> <<>>]

\* Variant of isRegistered that does not tell the positions apart
isRegisteredAnyPosition(method, name, trigger) ==
  \E t \in {TRIGGER_BEFORE, TRIGGER_AFTER} : <<method, name, t>> \in registered
\* isRegistered(method, name, trigger)
isRegistered(method, name, trigger) == <<method, name, trigger>> \in registered

Str(b) == IF b THEN "true" ELSE "false"

\* The payloads the requests are made with
Targets == {<<"Folder", 3>>, <<"Order", 1>>, <<"Line", 2>>,
            <<"Folder", MissingId>>}
Patches == {<<>>, <<[path |-> "name", value |-> "b"]>>}
\* The event keys requests carry: none, or the key caller "c1" locks with
RequestKeys == {NoKey, "k1"}

\* that.request for a top-level call (no payload.client): db.connect, then
\* doRequest dispatches on the method.
Request ==
  /\ req.pc \in {"idle", "done"}
  /\ nReq < MaxReqs
  /\ nReq' = nReq + 1
  /\ trace' = <<>>
  /\ \E m \in {"GET", "POST", "PATCH", "DELETE"}, t \in Targets :
       LET su == FALSE   \* that.request(payload): isSuperUser defaults false
           base == [IdleReq EXCEPT !.method = m, !.name = t[1], !.su = su,
                                   !.walk = t[1],
                                   !.snap = <<[rows |-> rows, log |-> log]>>]
       IN CASE m = "GET" ->
                 \E byId \in BOOLEAN, sd \in BOOLEAN :
                   req' = [base EXCEPT !.pc = "exec", !.showDeleted = sd,
                                       !.id = IF byId THEN t[2] ELSE 0]
            [] m = "POST" ->
                 /\ t[2] # MissingId
                 /\ req' = [base EXCEPT !.pc = "before", !.wrap = TRUE,
                              !.data = <<[path |-> "name", value |-> "a"]>>,
                              !.cache = <<[path |-> "name", value |-> "a"]>>]
            [] m = "PATCH" ->
                 \E d \in Patches, k \in RequestKeys,
                    e \in {RowOf(View, t[2]).etag} \cup
                          IF Catalog[t[1]].etag THEN {FirstToken} ELSE {} :
                   req' = [base EXCEPT !.pc = "before", !.wrap = TRUE,
                             !.id = t[2], !.data = d, !.cache = d,
                             !.eventkey = k, !.basis = e]
            [] OTHER ->
                 \E k \in RequestKeys, hard \in BOOLEAN :
                   req' = [base EXCEPT !.pc = "before", !.wrap = TRUE,
                             !.id = t[2], !.eventkey = k, !.isHard = hard]
  /\ UNCHANGED <<rows, log, tx, pkSeq, tokSeq, registered, grants, lockers,
                 nLock, lastLock, hist, subs, subCall, feathers, lastFeather,
                 conn>>

\* that.request with payload.client set: isExternalClient, the client is
\* the caller's (wrapped or not), wrap stays false
RequestNested ==
  /\ req.pc \in {"idle", "done"}
  /\ nReq < MaxReqs
  /\ nReq' = nReq + 1
  /\ trace' = <<>>
  /\ \E m \in {"GET", "POST", "PATCH", "DELETE"}, t \in Targets :
       LET base == [IdleReq EXCEPT !.method = m, !.name = t[1],
                                   !.walk = t[1], !.external = TRUE,
                                   !.clientSet = TRUE,
                                   !.snap = <<[rows |-> View.rows,
                                               log |-> View.log]>>]
       IN CASE m = "GET" ->
                 req' = [base EXCEPT !.pc = "exec", !.id = t[2]]
            [] m = "POST" ->
                 \E withId \in BOOLEAN :
                   req' = [base EXCEPT
                             !.pc = IF withId THEN "upsert" ELSE "before",
                             !.id = IF withId THEN t[2] ELSE 0,
                             !.upsert = withId,
                             !.data = <<[path |-> "name", value |-> "a"]>>,
                             !.cache = <<[path |-> "name", value |-> "a"]>>]
            [] m = "PATCH" ->
                 \E d \in Patches :
                   req' = [base EXCEPT !.pc = "before", !.id = t[2],
                             !.data = d, !.cache = d,
                             !.basis = RowOf(View, t[2]).etag]
            [] OTHER ->
                 \E hard \in BOOLEAN :
                   req' = [base EXCEPT !.pc = "before", !.id = t[2],
                                       !.isHard = hard]
  /\ UNCHANGED <<rows, log, tx, pkSeq, tokSeq, registered, grants, lockers,
                 nLock, lastLock, hist, subs, subCall, feathers, lastFeather,
                 conn>>

\* The ids a POST with id is made with: of the Order, of the Folder, and
\* one no object has; a POST on the child feather Line is rejected
NewId == 7
UpsertTargets == {<<"Order", 1>>, <<"Folder", 3>>, <<"Folder", 1>>,
                  <<"Order", NewId>>, <<"Folder", NewId>>, <<"Line", NewId>>}

\* that.request of a POST with obj.id, without client.  prev keeps, for a
\* request that follows a resolved POST with id, that request's payload and
\* the rows it left.
RequestUpsert ==
  /\ req.pc \in {"idle", "done"}
  /\ nReq < MaxReqs
  /\ nReq' = nReq + 1
  /\ trace' = <<>>
  /\ \E t \in UpsertTargets, d \in Patches :
       req' = [IdleReq EXCEPT
                 !.pc = "upsert", !.method = "POST", !.name = t[1],
                 !.walk = t[1], !.id = t[2], !.upsert = TRUE, !.data = d,
                 !.cache = d,
                 !.snap = <<[rows |-> rows, log |-> log]>>,
                 !.prev = IF req.pc = "done" /\ req.upsert /\ req.ok
                          THEN <<[name |-> req.name, id |-> req.id,
                                  cache |-> req.cache, rows |-> rows]>>
                          ELSE <<>>]
  /\ UNCHANGED <<rows, log, tx, pkSeq, tokSeq, registered, grants, lockers,
                 nLock, lastLock, hist, subs, subCall, feathers, lastFeather,
                 conn>>

\* The data a Contact is posted or patched with: no name, or one of two
ContactData == {<<>>, <<[path |-> "name", value |-> "a"]>>,
                <<[path |-> "name", value |-> "b"]>>}
ContactIds == {5, 6}

\* that.request of a POST or PATCH on the feather with the natural key
RequestContact ==
  /\ req.pc \in {"idle", "done"}
  /\ nReq < MaxReqs
  /\ nReq' = nReq + 1
  /\ trace' = <<>>
  /\ \E d \in ContactData :
       LET base == [IdleReq EXCEPT !.pc = "before", !.name = "Contact",
                                   !.walk = "Contact", !.wrap = TRUE,
                                   !.data = d, !.cache = d,
                                   !.snap = <<[rows |-> rows, log |-> log]>>]
       IN \/ req' = [base EXCEPT !.method = "POST"]
          \/ \E i \in ContactIds :
               req' = [base EXCEPT !.method = "PATCH", !.id = i]
  /\ UNCHANGED <<rows, log, tx, pkSeq, tokSeq, registered, grants, lockers,
                 nLock, lastLock, hist, subs, subCall, feathers, lastFeather,
                 conn>>

\* that.request(payload, isSuperUser) of a POST, a POST with id, a PATCH
\* or a DELETE on the Folder feather, as super user or not
RequestAuth ==
  /\ req.pc \in {"idle", "done"}
  /\ nReq < MaxReqs
  /\ nReq' = nReq + 1
  /\ trace' = <<>>
  /\ \E su \in BOOLEAN, d \in Patches :
       LET base == [IdleReq EXCEPT !.pc = "before", !.name = "Folder",
                                   !.walk = "Folder", !.su = su,
                                   !.wrap = TRUE, !.data = d, !.cache = d,
                                   !.snap = <<[rows |-> rows, log |-> log]>>]
       IN \/ req' = [base EXCEPT !.method = "POST"]
          \/ \E i \in {3, NewId} :
               req' = [base EXCEPT !.method = "POST", !.pc = "upsert",
                                   !.id = i, !.upsert = TRUE, !.wrap = FALSE]
          \/ req' = [base EXCEPT !.method = "PATCH", !.id = 3]
          \/ req' = [base EXCEPT !.method = "DELETE", !.id = 3, !.data = <<>>,
                                 !.cache = <<>>]
  /\ UNCHANGED <<rows, log, tx, pkSeq, tokSeq, registered, grants, lockers,
                 nLock, lastLock, hist, subs, subCall, feathers, lastFeather,
                 conn>>

Ev(e, f) == [ev |-> e, f |-> f]


\* What a registered trigger function does when it is called: resolve,
\* throw, first make a data request on the same client (a PATCH of the
\* Folder row) and then resolve, or assign to obj.newRec.name and resolve.
Outcomes == {"ok", "throw", "write", "mutate"}

\* The value a mutating BEFORE trigger assigns to newRec.name
MutatedName == "c"

\* getOld: the nested GET on the request's client, as super user
getOld(r) == doSelectOne(View, r.name, r.id, FALSE, FALSE, "true")

\* doPrepareTrigger: with neither newRec nor oldRec set, PATCH and DELETE
\* begin the transaction and read the old record; setRecs throws when the
\* record to patch is not there.
PrepBegins(r) == ~r.hasRecs /\ r.method \in {"PATCH", "DELETE"}
PrepFails(r) == ~r.hasRecs /\ r.method = "PATCH" /\ ~getOld(r).found
PrepHasRecs(r) ==
  \/ r.hasRecs
  \/ r.method \in {"POST", "PATCH"}
  \/ r.method = "DELETE" /\ getOld(r).found

\* jsonpatch.compare of two records that differ at most in name
compare(old, new) ==
  IF old.name = new.name THEN <<>>
  ELSE <<[path |-> "name", value |-> new.name]>>

\* doTraverseBefore at an Object without BEFORE trigger: with obj.newRec
\* set by an earlier trigger, the data of a PATCH becomes the difference
\* of oldRec and newRec.
acceptChanges(r) ==
  IF r.hasRecs /\ r.method = "PATCH"
  THEN compare(r.oldRec, [r.oldRec EXCEPT !.name = r.newName])
  ELSE IF r.hasRecs /\ r.method = "POST" /\ (r.mutated \/ r.data # <<>>)
  THEN <<[path |-> "name", value |-> r.newName]>>
  ELSE r.data

\* doPrepareTrigger: obj.newRec.name once the records are set (POST: a
\* copy of the data; PATCH: the old record with the patch applied)
PrepNewName(r) ==
  IF r.hasRecs THEN r.newName
  ELSE IF r.method = "POST"
  THEN IF r.data = <<>> THEN "" ELSE r.data[1].value
  ELSE IF r.method = "PATCH" THEN applyPatch(getOld(r).row, r.data).name
  ELSE ""

\* The data request a trigger makes with payload.client
TriggerWrite(v, tok, pk) ==
  doUpdate(v, "Folder", 3, <<[path |-> "name", value |-> "b"]>>, NoKey,
           FALSE, "true", tok, pk)

\* doTraverseBefore / doTraverseAfter recursing from feather n up the
\* inheritance chain: the first feather with a trigger registered for the
\* method at the position, or "" when the walk passes Object without one.
RECURSIVE NextStop(_, _, _)
NextStop(method, n, position) ==
  IF isRegistered(method, n, position) THEN n
  ELSE IF n = "Object" THEN ""
  ELSE NextStop(method, ParentOfFeather(n), position)

\* One step of doTraverseBefore / doTraverseAfter from the feather
\* req.walk: up to and including the next registered trigger, or to the
\* end of the walk.  next is the pc once the walk has passed Object.
Traverse(position, evname, next) ==
  LET n == NextStop(req.method, req.walk, position)
      parent == IF n = "" THEN "" ELSE ParentOfFeather(n)
      onward == [req EXCEPT !.pc = next, !.walk = "Object",
                            !.data = IF position = TRIGGER_BEFORE
                                     THEN acceptChanges(req) ELSE @]
  IN
  IF n # ""
  THEN
    LET wrap2 == ~req.clientSet /\ req.method # "GET"
        opened == tx.open \/ PrepBegins(req) \/ (~PrepFails(req) /\ wrap2)
        tr1 == IF ~tx.open /\ opened THEN Append(trace, Ev("BEGIN", ""))
               ELSE trace
        tr2 == Append(tr1, Ev(evname, n))
        r1 == [req EXCEPT !.hasRecs = PrepHasRecs(req),
                          !.newName = PrepNewName(req),
                          !.oldRec = IF PrepBegins(req) THEN getOld(req).row
                                     ELSE @]
        r2 == [r1 EXCEPT !.wrap = wrap2, !.clientSet = TRUE]
        moved == IF n = "Object" THEN [r2 EXCEPT !.pc = next]
                 ELSE [r2 EXCEPT !.walk = parent]
    IN IF PrepFails(req)
       THEN /\ req' = [r1 EXCEPT !.pc = "rollback", !.err = "TypeError"]
            /\ tx' = [tx EXCEPT !.open = opened]
            /\ trace' = tr1
            /\ UNCHANGED <<rows, log, tokSeq, pkSeq>>
       ELSE \E o \in Outcomes :
            CASE o = "ok" ->
                   /\ req' = moved
                   /\ tx' = [tx EXCEPT !.open = opened]
                   /\ trace' = tr2
                   /\ UNCHANGED <<rows, log, tokSeq, pkSeq>>
              [] o = "throw" ->
                   /\ req' = [r2 EXCEPT !.pc = "rollback",
                                        !.err = "trigger"]
                   /\ tx' = [tx EXCEPT !.open = opened]
                   /\ trace' = tr2
                   /\ UNCHANGED <<rows, log, tokSeq, pkSeq>>
              [] o = "mutate" ->
                   /\ position = TRIGGER_BEFORE
                   /\ req.method \in {"POST", "PATCH"}
                   /\ req' = [moved EXCEPT !.newName = MutatedName,
                                           !.mutated = TRUE]
                   /\ tx' = [tx EXCEPT !.open = opened]
                   /\ trace' = tr2
                   /\ UNCHANGED <<rows, log, tokSeq, pkSeq>>
              [] OTHER ->
                   \E w \in {TriggerWrite(View, tokSeq, pkSeq)} :
                      /\ ~isRegistered("PATCH", "Folder", TRIGGER_BEFORE)
                      /\ ~isRegistered("PATCH", "Folder", TRIGGER_AFTER)
                      /\ ~isRegistered("PATCH", "Object", TRIGGER_BEFORE)
                      /\ ~isRegistered("PATCH", "Object", TRIGGER_AFTER)
                      /\ opened
                      /\ w.ok
                      /\ req' = moved
                      /\ tx' = [tx EXCEPT
                           !.open = TRUE,
                           !.rows = w.v.rows,
                           !.touched = @ \cup {p \in Pks :
                                          w.v.rows[p] # View.rows[p]},
                           !.log = SubSeq(w.v.log, Len(log) + 1,
                                          Len(w.v.log))]
                      /\ trace' = tr2
                      /\ tokSeq' = w.tok
                      /\ pkSeq' = w.pk
                      /\ UNCHANGED <<rows, log>>
  ELSE /\ req' = onward
       /\ UNCHANGED <<rows, log, tx, trace, tokSeq, pkSeq, conn>>

\* overlay(obj.data, resp): the properties the data does not carry are
\* taken from the existing record
overlay(data, resp) == applyPatch(resp, data)

\* doRequest for POST with obj.id: begin(), then doUpsert selects the
\* object by id as the requesting user.  Found, the request becomes a
\* PATCH with the difference of the record and the overlaid data; not
\* found, data.id is set and the POST goes on.  Either way the before walk
\* follows.
Upsert ==
  /\ req.pc = "upsert"
  /\ LET sel == doSelectOne(View, req.name, req.id, FALSE, FALSE, Str(req.su))
     IN req' = IF ~sel.ok
               THEN [req EXCEPT !.pc = "rollback", !.err = sel.err]
               ELSE IF sel.found
               THEN [req EXCEPT !.pc = "before", !.method = "PATCH",
                       !.data = compare(sel.row, overlay(req.data, sel.row))]
               ELSE [req EXCEPT !.pc = "before"]
  /\ tx' = [tx EXCEPT !.open = TRUE]
  /\ trace' = IF tx.open THEN trace ELSE Append(trace, Ev("BEGIN", ""))
  /\ UNCHANGED <<rows, log, pkSeq, tokSeq, registered, grants, lockers,
                 nReq, nLock, lastLock, hist,
                 subs, subCall, feathers, lastFeather, conn>>

\* doTraverseBefore
BeforeStep ==
  /\ req.pc = "before"
  /\ Traverse(TRIGGER_BEFORE, "BEFORE", "exec")
  /\ UNCHANGED <<registered, grants, lockers, nReq, nLock, lastLock, hist,
                 subs, subCall, feathers, lastFeather, conn>>

\* doTraverseAfter
AfterStep ==
  /\ req.pc = "after"
  /\ Traverse(TRIGGER_AFTER, "AFTER", "commit")
  /\ UNCHANGED <<registered, grants, lockers, nReq, nLock, lastLock, hist,
                 subs, subCall, feathers, lastFeather, conn>>

\* The CRUD service doQuery selects for the request's method
\* jsonpatch.compare / applyPatch on whole records: the replacement of
\* each property that differs (<<>> when it does not)
NoDiff == [name |-> <<>>, etag |-> <<>>, lock |-> <<>>]
compareRec(a, b) ==
  [name |-> IF a.name = b.name THEN <<>> ELSE <<b.name>>,
   etag |-> IF a.etag = b.etag THEN <<>> ELSE <<b.etag>>,
   lock |-> IF a.lock = b.lock THEN <<>> ELSE <<b.lock>>]
applyRec(rec, d) ==
  [rec EXCEPT !.name = IF d.name = <<>> THEN @ ELSE d.name[1],
              !.etag = IF d.etag = <<>> THEN @ ELSE d.etag[1],
              !.lock = IF d.lock = <<>> THEN @ ELSE d.lock[1]]
sanitize(rec) == [rec EXCEPT !.lock = sanitizeLock(@)]

\* What doUpdate resolves with: [] at once for an empty patch list,
\* otherwise (done) the difference between cacheRec, the old record with
\* the request's original patches applied, and the re-selected record
\* with its lock removed
updateResponse(old, new, patches, cache) ==
  IF isEmptyPatch(patches) THEN NoDiff
  ELSE compareRec(applyPatch(sanitize(old), cache),
                  [sanitize(new) EXCEPT !.lock = NoLock])

Service(r, v, tok, pk) ==
  CASE r.method = "POST" /\ r.lines.given ->
         doInsertLines(v, r.name, r.data, r.lines, r.id, FALSE, Str(r.su),
                       tok, pk)
    [] r.method = "PATCH" /\ r.lines.given ->
         doUpdateLines(v, r.name, r.id, r.data, r.lines, r.eventkey, FALSE,
                       Str(r.su), tok, pk)
    [] r.method = "POST" ->
         doInsert(v, r.name, r.data, r.id, FALSE, Str(r.su), tok, pk)
    [] r.method = "PATCH" ->
         doUpdate(v, r.name, r.id, r.data, r.eventkey, FALSE, Str(r.su),
                  tok, pk)
    [] OTHER ->
         doDelete(v, r.name, r.id, r.eventkey, r.isHard, FALSE, Str(r.su),
                  tok, pk)

\* doQuery for GET: crud.doSelect, resolved or rejected straight to the
\* caller (no transaction)
ExecGet ==
  /\ req.pc = "exec"
  /\ req.method = "GET"
  /\ LET one == doSelectOne(View, req.name, req.id, req.showDeleted, FALSE,
                            Str(req.su))
         many == doSelectList(View, req.name, req.showDeleted, FALSE,
                              Str(req.su))
         got == getKeysFiltered(View, req.name, req.filter,
                                req.showDeleted, Str(req.su))
         feathername == IF \/ ~req.filter.given
                           \/ ~req.filter.hasCriteria /\ ~limitSet(req.filter)
                        THEN req.name ELSE ""
         call == [NoSubCall EXCEPT !.select = TRUE,
                                   !.sub = req.subscription,
                                   !.before = subs]
     IN IF req.id # 0
        THEN \* afterGetKey: the row resolves, the subscription is not used
             /\ req' = [req EXCEPT !.pc = "done", !.ok = one.ok,
                          !.err = one.err, !.clientSet = TRUE,
                          !.released = closed(one.ok, req.external),
                          !.ids = IF one.found THEN {one.row.id} ELSE {}]
             /\ subCall' = IF req.subscription.given
                           THEN [call EXCEPT
                                   !.ids = IF one.found THEN {one.row.id}
                                           ELSE {},
                                   !.ok = one.ok]
                           ELSE subCall
             /\ UNCHANGED subs
        ELSE IF ~many.ok \/ ~got.ok
        THEN /\ req' = [req EXCEPT !.pc = "done", !.ok = FALSE,
                          !.err = IF many.ok THEN got.err ELSE many.err,
                          !.released = closed(FALSE, req.external),
                          !.clientSet = TRUE, !.ids = {}]
             /\ UNCHANGED <<subs, subCall, feathers, lastFeather>>
        ELSE \E keys \in got.sets :
               LET ids == {View.rows[k].id : k \in keys}
               IN IF keys # {}
                  THEN \* afterGetKeys with rows: events.subscribe
                       \E r \in {subscribe(subs, req.subscription, ids,
                                           feathername)} :
                         /\ subs' = r.tbl
                         /\ subCall' = IF req.subscription.given
                                       THEN [call EXCEPT !.op = "subscribe",
                                               !.ids = ids,
                                               !.table = feathername,
                                               !.ok = r.ok]
                                       ELSE subCall
                         /\ req' = [req EXCEPT !.pc = "done", !.ok = r.ok,
                                      !.err = IF r.ok THEN ""
                                              ELSE "subscribe failed",
                                      !.clientSet = TRUE,
                                      !.released =
                                        closed(r.ok, req.external),
                                      !.ids = IF r.ok THEN ids ELSE {}]
                  ELSE \* afterGetKeys without rows: events.unsubscribe
                       /\ subs' = unsubscribe(subs, req.subscription.id,
                                              "subscription")
                       /\ subCall' = IF req.subscription.given
                                     THEN [call EXCEPT !.op = "unsubscribe",
                                             !.type = "subscription",
                                             !.ok = TRUE]
                                     ELSE subCall
                       /\ req' = [req EXCEPT !.pc = "done", !.ok = TRUE,
                                    !.err = "", !.clientSet = TRUE,
                                    !.released =
                                      closed(TRUE, req.external),
                                    !.ids = {}]
  /\ UNCHANGED <<rows, log, tx, pkSeq, tokSeq, registered, grants, trace,
                 lockers, nReq, nLock, lastLock, hist, feathers, lastFeather,
                 conn>>

\* doQuery for POST, PATCH and DELETE: doExecute begins the transaction
\* when wrap is set and runs the CRUD service; its result is kept as
\* obj.response and the after walk starts, a rejection goes to rollback.
Exec ==
  /\ req.pc = "exec"
  /\ req.method # "GET"
  /\ req.method = "POST" => pkSeq + Len(req.lines.rows) < MaxPk
  /\ \E r \in {Service(req, View, tokSeq, pkSeq)} :
     LET opened == tx.open \/ req.wrap
         base == [req EXCEPT
                    !.clientSet = TRUE, !.pre = <<View>>, !.post = <<r.v>>,
                    !.stmts = IF req.lines.given THEN r.stmts ELSE <<>>,
                    !.late = IF req.lines.given /\ r.late # <<>>
                             THEN [rows |-> r.late,
                                   rel |-> Catalog[req.name].parentOf,
                                   pk |-> pkSeq + 1, of |-> nReq]
                             ELSE @,
                    !.resp = IF req.method = "PATCH" /\ r.ok
                             THEN <<updateResponse(RowOf(View, req.id),
                                                   RowOf(r.v, req.id),
                                                   req.data, req.cache)>>
                             ELSE <<>>]
     IN /\ tx' = IF opened
                 THEN [tx EXCEPT
                         !.open = TRUE,
                         !.rows = r.v.rows,
                         !.touched = @ \cup {p \in Pks :
                                        r.v.rows[p] # View.rows[p]},
                         !.log = SubSeq(r.v.log, Len(log) + 1, Len(r.v.log))]
                 ELSE tx
        /\ rows' = IF opened THEN rows ELSE r.v.rows
        /\ log' = IF opened THEN log ELSE r.v.log
        /\ trace' = Append(IF ~tx.open /\ opened
                           THEN Append(trace, Ev("BEGIN", ""))
                           ELSE trace, Ev("CRUD", ""))
        /\ tokSeq' = r.tok
        /\ pkSeq' = r.pk
        /\ req' = IF r.ok
                  THEN [base EXCEPT !.pc = "after", !.walk = req.name,
                                    !.ids = r.ids]
                  ELSE [base EXCEPT !.pc = "rollback", !.err = r.err,
                                    !.user = r.user]
  /\ UNCHANGED <<registered, grants, lockers, nReq, nLock, lastLock, hist,
                 subs, subCall, feathers, lastFeather, conn>>

\* Variant of Commit that commits on a client the caller passed too
CommitExternal ==
  /\ req.pc = "commit"
  /\ rows' = View.rows
  /\ log' = View.log
  /\ tx' = NoTx
  /\ trace' = IF tx.open THEN Append(trace, Ev("COMMIT", "")) ELSE trace
  /\ req' = [req EXCEPT !.pc = "done", !.ok = TRUE,
                        !.released = closed(TRUE, req.external)]
  /\ hist' = IF req.method = "DELETE"
             THEN hist \cup {[id |-> req.id, hard |-> req.isHard]}
             ELSE hist
  /\ UNCHANGED <<pkSeq, tokSeq, registered, grants, lockers, nReq, nLock,
                 lastLock, subs, subCall, feathers, lastFeather, conn>>
\* commit, then close: COMMIT is issued when the client is wrapped; with a
\* client passed by the caller the response resolves and nothing is issued
Commit ==
  /\ req.pc = "commit"
  /\ rows' = IF req.external THEN rows ELSE View.rows
  /\ log' = IF req.external THEN log ELSE View.log
  /\ tx' = IF req.external THEN tx ELSE NoTx
  /\ trace' = IF tx.open /\ ~req.external
              THEN Append(trace, Ev("COMMIT", "")) ELSE trace
  /\ req' = [req EXCEPT !.pc = "done", !.ok = TRUE,
                        !.released = closed(TRUE, req.external)]
  /\ hist' = IF req.method = "DELETE" /\ ~req.external
             THEN hist \cup {[id |-> req.id, hard |-> req.isHard]}
             ELSE hist
  /\ UNCHANGED <<pkSeq, tokSeq, registered, grants, lockers, nReq, nLock,
                 lastLock, subs, subCall, feathers, lastFeather, conn>>

\* The statusCode of the value a service rejects with: doInsert rejects
\* {statusCode: 401, message} when not authorized, everything else is a
\* string or an Error without statusCode (0)
RejectStatus(err) == IF err = "Not authorized to create" THEN 401 ELSE 0

\* error(err): if (!err.statusCode) err.statusCode = 500
error(status) == IF status = 0 THEN 500 ELSE status

\* Variant of Rollback that keeps what the transaction wrote
RollbackKeepsWrites ==
  /\ req.pc = "rollback"
  /\ rows' = View.rows
  /\ log' = View.log
  /\ tx' = NoTx
  /\ trace' = IF tx.open THEN Append(trace, Ev("ROLLBACK", "")) ELSE trace
  /\ req' = [req EXCEPT !.pc = "done", !.ok = FALSE,
                        !.released = errorDone(tx.open, req.external),
                        !.status = error(RejectStatus(req.err))]
  /\ UNCHANGED <<pkSeq, tokSeq, registered, grants, lockers,
                 nReq, nLock, lastLock, hist,
                 subs, subCall, feathers, lastFeather, conn>>
\* rollback: ROLLBACK is issued when the client is wrapped, and the
\* request's promise rejects; with a client passed by the caller the
\* transaction is left to the caller
Rollback ==
  /\ req.pc = "rollback"
  /\ tx' = IF req.external THEN tx ELSE NoTx
  /\ trace' = IF tx.open /\ ~req.external
              THEN Append(trace, Ev("ROLLBACK", "")) ELSE trace
  /\ req' = [req EXCEPT !.pc = "done", !.ok = FALSE,
                        !.released = errorDone(tx.open, req.external),
                        !.status = IF req.external \/ tx.open
                                   THEN error(RejectStatus(req.err))
                                   ELSE RejectStatus(req.err)]
  /\ UNCHANGED <<rows, log, pkSeq, tokSeq, registered, grants, lockers,
                 nReq, nLock, lastLock, hist,
                 subs, subCall, feathers, lastFeather, conn>>

\* ------------------------------------------------------ changeUserInfo
\* that.changeUserInfo(obj): the call in flight, its client (conn) and the
\* promise it returned. acct is what the database holds for obj.name,
\* held whether db.connect handed out a client, inTx the transaction of
\* the client in the database, wrapped the client's wrapped() flag,
\* released the done() calls, stmts the transaction statements issued on
\* the client.
NoConn == [pc |-> "idle", call |-> 0, name |-> "", acct |-> "",
           held |-> FALSE, inTx |-> FALSE, wrapped |-> FALSE,
           released |-> 0, promise |-> "", stmts |-> <<>>]

\* begin of that.request: BEGIN is issued unless client.wrapped(), and
\* wrapped(true) is set when it completes
begin(c) ==
  IF c.wrapped THEN c
  ELSE [c EXCEPT !.stmts = Append(@, "BEGIN"), !.inTx = TRUE,
                 !.wrapped = TRUE]

\* ------------------------------------------------------- specifications
\* The database the behaviours start from: an Order (with etag) holding
\* one Line, and a Folder (no etag).
SeedRows ==
  [p \in Pks |->
     CASE p = 1 -> [NoRow EXCEPT !.feather = "Order", !.id = 1,
                                 !.etag = FirstToken, !.name = "a"]
       [] p = 2 -> [NoRow EXCEPT !.feather = "Line", !.id = 2,
                                 !.name = "a", !.parent = 1]
       [] p = 3 -> [NoRow EXCEPT !.feather = "Folder", !.id = 3,
                                 !.name = "a"]
       [] OTHER -> NoRow]

InitBase ==
  /\ rows = SeedRows
  /\ log = <<>>
  /\ tx = NoTx
  /\ pkSeq = 3
  /\ tokSeq = FirstToken
  /\ req = IdleReq
  /\ trace = <<>>
  /\ lockers = [c \in Callers |-> IdleLocker]
  /\ nReq = 0
  /\ nLock = 0
  /\ lastLock = NoLockCall
  /\ hist = {}
  /\ subs = NoSubs
  /\ subCall = NoSubCall
  /\ feathers = NoFeathers
  /\ lastFeather = NoFeather
  /\ conn = NoConn

\* No trigger registered
Init ==
  /\ InitBase
  /\ registered = {}
  /\ grants = Actions

Next ==
  \/ Request
  \/ BeforeStep
  \/ ExecGet
  \/ Exec
  \/ AfterStep
  \/ Commit
  \/ Rollback
  \/ \E c \in Callers : LockStart(c)
  \/ \E c \in Callers : LockCheck(c)
  \/ \E c \in Callers : LockDo(c)
  \/ Unlock

Spec == Init /\ [][Next]_vars

\* The trigger registrations the pipeline is run with (registerFunction):
\* one without a PATCH trigger on Folder or Object, one with triggers
\* registered on Object, and one where a PATCH meets an AFTER trigger only
\* and a POST a BEFORE trigger on Object.
TriggerConfigs ==
  {{<<"PATCH", "Order", TRIGGER_BEFORE>>, <<"PATCH", "Document", TRIGGER_BEFORE>>,
    <<"PATCH", "Document", TRIGGER_AFTER>>, <<"DELETE", "Folder", TRIGGER_BEFORE>>,
    <<"DELETE", "Folder", TRIGGER_AFTER>>, <<"POST", "Order", TRIGGER_AFTER>>},
   {<<"PATCH", "Folder", TRIGGER_BEFORE>>, <<"PATCH", "Object", TRIGGER_BEFORE>>,
    <<"PATCH", "Object", TRIGGER_AFTER>>, <<"DELETE", "Object", TRIGGER_AFTER>>,
    <<"POST", "Folder", TRIGGER_BEFORE>>, <<"POST", "Object", TRIGGER_AFTER>>},
   {<<"PATCH", "Document", TRIGGER_AFTER>>, <<"POST", "Object", TRIGGER_BEFORE>>,
    <<"DELETE", "Order", TRIGGER_BEFORE>>}}

InitTrig ==
  /\ InitBase
  /\ registered \in TriggerConfigs
  /\ grants = Actions

\* The request pipeline alone, without lock calls on other connections
NextTrig ==
  \/ Request
  \/ BeforeStep
  \/ ExecGet
  \/ Exec
  \/ AfterStep
  \/ Commit
  \/ Rollback

SpecTrig == InitTrig /\ [][NextTrig]_vars

\* Requests made with payload.client, as from inside a trigger or a
\* registered function: the caller's client has a transaction open or not.
InitNested ==
  /\ rows = SeedRows
  /\ log = <<>>
  /\ tx \in {NoTx, [NoTx EXCEPT !.open = TRUE]}
  /\ pkSeq = 3
  /\ tokSeq = FirstToken
  /\ req = IdleReq
  /\ trace = <<>>
  /\ lockers = [c \in Callers |-> IdleLocker]
  /\ nReq = 0
  /\ nLock = 0
  /\ lastLock = NoLockCall
  /\ hist = {}
  /\ subs = NoSubs
  /\ subCall = NoSubCall
  /\ feathers = NoFeathers
  /\ lastFeather = NoFeather
  /\ conn = NoConn
  /\ registered \in TriggerConfigs
  /\ grants = Actions

NextNested ==
  \/ RequestNested
  \/ Upsert
  \/ BeforeStep
  \/ ExecGet
  \/ Exec
  \/ AfterStep
  \/ Commit
  \/ Rollback

SpecNested == InitNested /\ [][NextNested]_vars

\* POST requests with an id on a database of one Order and one Folder
SeedUpsert ==
  [p \in Pks |->
     CASE p = 1 -> [NoRow EXCEPT !.feather = "Order", !.id = 1,
                                 !.etag = FirstToken, !.name = "a"]
       [] p = 2 -> [NoRow EXCEPT !.feather = "Folder", !.id = 3,
                                 !.name = "a"]
       [] OTHER -> NoRow]

InitUpsert ==
  /\ rows = SeedUpsert
  /\ log = <<>>
  /\ tx = NoTx
  /\ pkSeq = 2
  /\ tokSeq = FirstToken
  /\ req = IdleReq
  /\ trace = <<>>
  /\ lockers = [c \in Callers |-> IdleLocker]
  /\ nReq = 0
  /\ nLock = 0
  /\ lastLock = NoLockCall
  /\ hist = {}
  /\ subs = NoSubs
  /\ subCall = NoSubCall
  /\ feathers = NoFeathers
  /\ lastFeather = NoFeather
  /\ conn = NoConn
  /\ registered = {}
  /\ grants = Actions

NextUpsert ==
  \/ RequestUpsert
  \/ Upsert
  \/ BeforeStep
  \/ Exec
  \/ AfterStep
  \/ Commit
  \/ Rollback

SpecUpsert == InitUpsert /\ [][NextUpsert]_vars

\* POST and PATCH requests on a database of two Contacts
SeedKey ==
  [p \in Pks |->
     CASE p = 1 -> [NoRow EXCEPT !.feather = "Contact", !.id = 5,
                                 !.name = "a"]
       [] p = 2 -> [NoRow EXCEPT !.feather = "Contact", !.id = 6,
                                 !.name = "b"]
       [] OTHER -> NoRow]

InitKey ==
  /\ rows = SeedKey
  /\ log = <<>>
  /\ tx = NoTx
  /\ pkSeq = 2
  /\ tokSeq = FirstToken
  /\ req = IdleReq
  /\ trace = <<>>
  /\ lockers = [c \in Callers |-> IdleLocker]
  /\ nReq = 0
  /\ nLock = 0
  /\ lastLock = NoLockCall
  /\ hist = {}
  /\ subs = NoSubs
  /\ subCall = NoSubCall
  /\ feathers = NoFeathers
  /\ lastFeather = NoFeather
  /\ conn = NoConn
  /\ registered = {}
  /\ grants = Actions

NextKey ==
  \/ RequestContact
  \/ BeforeStep
  \/ Exec
  \/ AfterStep
  \/ Commit
  \/ Rollback

SpecKey == InitKey /\ [][NextKey]_vars

\* What the authorization tables may grant the requesting user
AuthGrants == {{}, {"canRead"}, {"canRead", "canCreate"},
               {"canRead", "canUpdate"}, {"canRead", "canDelete"}, Actions}

InitAuth ==
  /\ InitBase
  /\ registered = {}
  /\ grants \in AuthGrants

NextAuth ==
  \/ RequestAuth
  \/ Upsert
  \/ BeforeStep
  \/ Exec
  \/ AfterStep
  \/ Commit
  \/ Rollback

SpecAuth == InitAuth /\ [][NextAuth]_vars

\* Subscriptions and filtered selects: two Folders (the second one
\* locked) and a Line, the table with or without its key
MaxSubCalls == 2
Sessions == {"s1", "s2"}
SubIds == {"sub1", "sub2"}
Subscriptions ==
  {[given |-> TRUE, nodeId |-> NodeId, sessionId |-> s, id |-> i,
    merge |-> m] : s \in Sessions, i \in SubIds, m \in BOOLEAN}
  \cup {[given |-> TRUE, nodeId |-> NodeId, sessionId |-> "", id |-> "sub1",
         merge |-> FALSE]}
Filters ==
  {NoFilter, [NoFilter EXCEPT !.given = TRUE]}
  \cup {[NoFilter EXCEPT !.given = TRUE, !.hasLimit = TRUE, !.limit = n] :
          n \in {0, 1}}
  \cup {[NoFilter EXCEPT !.given = TRUE, !.hasCriteria = TRUE,
                         !.criteria = c] :
          c \in {<<>>, <<Criterion("name", "string", "a")>>,
                 <<Criterion("name", "string", "z")>>,
                 <<Criterion("lock", "object", "")>>,
                 <<Criterion("lock", "null", "")>>}}
SubTargetIds == {1, 3}
\* A row an earlier session left in the table
EarlierRow ==
  SubRow([NoSub EXCEPT !.nodeId = NodeId, !.sessionId = "s2",
                       !.id = "sub2"], ObjTarget(3))

SeedSub ==
  [p \in Pks |->
     CASE p = 1 -> [NoRow EXCEPT !.feather = "Folder", !.id = 1,
                                 !.name = "a"]
       [] p = 2 -> [NoRow EXCEPT !.feather = "Folder", !.id = 3,
                                 !.name = "b",
                                 !.lock = [username |-> "u1",
                                           nodeid |-> NodeId,
                                           eventkey |-> "k1"]]
       [] p = 3 -> [NoRow EXCEPT !.feather = "Line", !.id = 2,
                                 !.name = "a", !.parent = 1]
       [] OTHER -> NoRow]

\* that.request of a GET with a filter or an id, and with or without a
\* subscription; doRequest sets subscription.nodeId to db.nodeId
RequestSelect ==
  /\ req.pc \in {"idle", "done"}
  /\ nReq < MaxSubCalls
  /\ nReq' = nReq + 1
  /\ trace' = <<>>
  /\ \E n \in {"Folder", "Line"}, sub \in Subscriptions \cup {NoSub} :
       LET base == [IdleReq EXCEPT !.pc = "exec", !.method = "GET",
                                   !.name = n, !.walk = n,
                                   !.subscription = sub,
                                   !.snap = <<[rows |-> rows, log |-> log]>>]
       IN \/ \E f \in Filters : req' = [base EXCEPT !.filter = f]
          \/ \E i \in SubTargetIds \cup {MissingId} :
               req' = [base EXCEPT !.id = i]
  /\ UNCHANGED <<rows, log, tx, pkSeq, tokSeq, registered, grants, lockers,
                 nLock, lastLock, hist, subs, subCall, feathers, lastFeather,
                 conn>>

\* events.subscribe called on a client outside a transaction
SubscribeCall ==
  /\ req.pc \in {"idle", "done"}
  /\ nReq < MaxSubCalls
  /\ nReq' = nReq + 1
  /\ \E sub \in Subscriptions, ids \in SUBSET SubTargetIds,
        t \in {"", "Folder"} :
       \E r \in {subscribe(subs, sub, ids, t)} :
         /\ subs' = r.tbl
         /\ subCall' = [NoSubCall EXCEPT !.op = "subscribe", !.sub = sub,
                                         !.ids = ids, !.table = t,
                                         !.before = subs, !.ok = r.ok]
  /\ UNCHANGED <<rows, log, tx, pkSeq, tokSeq, registered, grants, req,
                 trace, lockers, nLock, lastLock, hist, feathers, lastFeather,
                 conn>>

\* events.unsubscribe by subscription, session or node id
UnsubscribeCall ==
  /\ req.pc \in {"idle", "done"}
  /\ nReq < MaxSubCalls
  /\ nReq' = nReq + 1
  /\ \E a \in {<<"sub1", "subscription">>, <<"", "subscription">>,
                <<"s1", "session">>, <<NodeId, "node">>} :
       /\ subs' = unsubscribe(subs, a[1], a[2])
       /\ subCall' = [NoSubCall EXCEPT !.op = "unsubscribe",
                                       !.sub = [NoSub EXCEPT !.id = a[1]],
                                       !.type = a[2], !.before = subs,
                                       !.ok = TRUE]
  /\ UNCHANGED <<rows, log, tx, pkSeq, tokSeq, registered, grants, req,
                 trace, lockers, nLock, lastLock, hist, feathers, lastFeather,
                 conn>>

InitSub ==
  /\ rows = SeedSub
  /\ log = <<>>
  /\ tx = NoTx
  /\ pkSeq = 3
  /\ tokSeq = FirstToken
  /\ req = IdleReq
  /\ trace = <<>>
  /\ lockers = [c \in Callers |-> IdleLocker]
  /\ nReq = 0
  /\ nLock = 0
  /\ lastLock = NoLockCall
  /\ hist = {}
  /\ subs \in {[keyed |-> k, rows |-> b] :
                 k \in BOOLEAN, b \in {EmptyBag, SetToBag({EarlierRow})}}
  /\ subCall = NoSubCall
  /\ feathers = NoFeathers
  /\ lastFeather = NoFeather
  /\ conn = NoConn
  /\ registered = {}
  /\ grants = Actions

NextSub ==
  \/ RequestSelect
  \/ ExecGet
  \/ SubscribeCall
  \/ UnsubscribeCall

SpecSub == InitSub /\ [][NextSub]_vars

\* getFeather on the chain Order, Document, Object: every choice of the
\* properties the three declare, Object always declaring id
ChainFeathers == {"Order", "Document", "Object"}
Declare(st, n, ks) ==
  [st EXCEPT ![n] = [k \in PropKeys |->
                       [NoProp EXCEPT !.declared = k \in ks]]]
FeatherStores ==
  {Declare(Declare(Declare(NoFeathers, "Object", {"id"} \cup o),
                   "Document", d), "Order", e) :
     o \in SUBSET {"name"}, d \in SUBSET {"name", "etag"},
     e \in SUBSET {"name", "etag", "lines"}}

GetFeather ==
  /\ \E n \in ChainFeathers, inc \in BOOLEAN :
       \E r \in {getFeather(feathers, n, inc)} :
         /\ feathers' = r.st
         /\ lastFeather' = [name |-> n, inherited |-> inc,
                            props |-> r.props]
  /\ UNCHANGED <<rows, log, tx, pkSeq, tokSeq, registered, grants, req,
                 trace, lockers, nReq, nLock, lastLock, hist, subs, subCall,
                 conn>>

InitFeather ==
  /\ rows = SeedRows
  /\ log = <<>>
  /\ tx = NoTx
  /\ pkSeq = 3
  /\ tokSeq = FirstToken
  /\ req = IdleReq
  /\ trace = <<>>
  /\ lockers = [c \in Callers |-> IdleLocker]
  /\ nReq = 0
  /\ nLock = 0
  /\ lastLock = NoLockCall
  /\ hist = {}
  /\ subs = NoSubs
  /\ subCall = NoSubCall
  /\ feathers \in FeatherStores
  /\ lastFeather = NoFeather
  /\ conn = NoConn
  /\ registered = {}
  /\ grants = Actions

NextFeather == GetFeather

SpecFeather == InitFeather /\ [][NextFeather]_vars

\* Requests with parentOf arrays and with null values, on the seeded
\* database and on an empty one.
\* that.request of a POST or PATCH on Order or Folder. The arrays hold
\* rows without id (Good; Bad with a property the Line feather does not
\* contain) and a row with the id of the seeded Line; an array comes with
\* the order in which the doInsert calls of its rows complete. With
\* {op: "remove", path: "/name"} the key is gone from the patched record.
RequestLines ==
  LET Good == [id |-> 0, name |-> "a", known |-> TRUE]
      Bad == [id |-> 0, name |-> "a", known |-> FALSE]
      Line2 == [id |-> 2, name |-> "b", known |-> TRUE]
      LineArrays == {<<>>, <<Good>>, <<Bad>>, <<Good, Good>>, <<Good, Bad>>,
                     <<Line2>>, <<Line2, Good>>}
      Orders(ary) ==
        {o \in [DOMAIN ary -> DOMAIN ary] : \A i, j \in DOMAIN ary :
                                               o[i] = o[j] => i = j}
      Lines == {NoLines} \cup
                 UNION {{[given |-> TRUE, rows |-> a, order |-> o] :
                           o \in Orders(a)} : a \in LineArrays}
      NameData == {<<>>, <<[path |-> "name", value |-> "b"]>>,
                   <<[path |-> "name", value |-> Null]>>}
  IN
  /\ req.pc \in {"idle", "done"}
  /\ nReq < MaxReqs
  /\ nReq' = nReq + 1
  /\ trace' = <<>>
  /\ \E n \in {"Order", "Folder"}, l \in Lines :
       LET base == [IdleReq EXCEPT !.pc = "before", !.name = n, !.walk = n,
                                   !.wrap = TRUE, !.lines = l,
                                   !.late = req.late,
                                   !.snap = <<[rows |-> rows, log |-> log]>>]
       IN \/ \E d \in NameData :
               req' = [base EXCEPT !.method = "POST", !.data = d,
                                   !.cache = d]
          \/ \E d \in NameData
                     \cup {<<[path |-> "name", value |-> Undefined]>>} :
               /\ l.order = [i \in DOMAIN l.rows |-> i]
               /\ req' = [base EXCEPT !.method = "PATCH", !.data = d,
                            !.cache = d,
                            !.id = IF n = "Order" THEN 1 ELSE 3,
                            !.basis = RowOf(View, IF n = "Order" THEN 1
                                                  ELSE 3).etag]
  /\ UNCHANGED <<rows, log, tx, pkSeq, tokSeq, registered, grants, lockers,
                 nLock, lastLock, hist, subs, subCall, feathers, lastFeather,
                 conn>>

\* A doInsert of a row of the array that was still running when the
\* parent's doInsert rejected completes: inside the transaction while the
\* request has not rolled back, on the released client (autocommit) after
LateInsert ==
  /\ req.late.rows # <<>>
  /\ req.pc \in {"rollback", "done"}
  /\ pkSeq < MaxPk
  /\ LET inTx == tx.open /\ req.late.of = nReq /\ req.pc = "rollback"
         db == IF inTx THEN View ELSE [rows |-> rows, log |-> log]
     IN \E r \in {insertChild(db, req.late.rel, req.late.pk,
                              Head(req.late.rows), tokSeq, pkSeq)} :
          /\ tx' = IF inTx
                   THEN [tx EXCEPT !.rows = r.v.rows,
                                   !.touched = @ \cup {p \in Pks :
                                                  r.v.rows[p] # db.rows[p]}]
                   ELSE tx
          /\ rows' = IF inTx THEN rows ELSE r.v.rows
          /\ tokSeq' = r.tok
          /\ pkSeq' = r.pk
  /\ req' = [req EXCEPT !.late.rows = Tail(@)]
  /\ UNCHANGED <<log, registered, grants, trace, lockers, nReq, nLock,
                 lastLock, hist, subs, subCall, feathers, lastFeather, conn>>

InitLines ==
  /\ \/ rows = SeedRows /\ pkSeq = 3
     \/ rows = [p \in Pks |-> NoRow] /\ pkSeq = 0
  /\ log = <<>>
  /\ tx = NoTx
  /\ tokSeq = FirstToken
  /\ req = IdleReq
  /\ trace = <<>>
  /\ lockers = [c \in Callers |-> IdleLocker]
  /\ nReq = 0
  /\ nLock = 0
  /\ lastLock = NoLockCall
  /\ hist = {}
  /\ subs = NoSubs
  /\ subCall = NoSubCall
  /\ feathers = NoFeathers
  /\ lastFeather = NoFeather
  /\ conn = NoConn
  /\ registered = {}
  /\ grants = Actions

NextLines ==
  \/ RequestLines
  \/ BeforeStep
  \/ Exec
  \/ AfterStep
  \/ Commit
  \/ Rollback
  \/ LateInsert

SpecLines == InitLines /\ [][NextLines]_vars

\* that.changeUserInfo: the calls, one after the other, for the accounts
\* the database may hold for obj.name
MaxUserCalls == 2

\* that.changeUserInfo(obj) returns its promise; the chain starts
ChangeUserInfo ==
  /\ conn.pc \in {"idle", "done"}
  /\ conn.call < MaxUserCalls
  /\ \E n \in {"u1", "u2"}, a \in {"none", "nocontact", "contact"} :
       conn' = [NoConn EXCEPT !.pc = "connect", !.call = conn.call + 1,
                              !.name = n, !.acct = a,
                              !.promise = "pending"]
  /\ UNCHANGED <<rows, log, tx, pkSeq, tokSeq, registered, grants, req,
                 trace, lockers, nReq, nLock, lastLock, hist,
                 subs, subCall, feathers, lastFeather>>

\* db.connect: resolves with a client and its done, or rejects
Connect ==
  /\ conn.pc = "connect"
  /\ \E ok \in BOOLEAN :
       conn' = IF ok THEN [conn EXCEPT !.pc = "begin", !.held = TRUE]
               ELSE [conn EXCEPT !.pc = "rollback"]
  /\ UNCHANGED <<rows, log, tx, pkSeq, tokSeq, registered, grants, req,
                 trace, lockers, nReq, nLock, lastLock, hist,
                 subs, subCall, feathers, lastFeather>>

\* changeUserInfo.begin: client.query("BEGIN;") on the client itself
UserBegin ==
  /\ conn.pc = "begin"
  /\ conn' = [conn EXCEPT !.pc = "lookup", !.inTx = TRUE,
                          !.stmts = Append(@, "BEGIN")]
  /\ UNCHANGED <<rows, log, tx, pkSeq, tokSeq, registered, grants, req,
                 trace, lockers, nReq, nLock, lastLock, hist,
                 subs, subCall, feathers, lastFeather>>

\* changeUserInfo.doUpdate: the nested requests on conn.client, each of
\* which resolves or rejects. "lookup" is the GET of the UserAccount:
\* without a row the callback throws, with one the contact decides which
\* POST follows. "create" is the POST of a Contact without obj.id, then
\* "link" the POST of the UserAccount with id; "update" is the POST of
\* the Contact with id. doRequest runs begin() for a POST with obj.id
\* only, and its commit and rollback leave a client that was passed to
\* the caller
NestedRequest ==
  /\ conn.pc \in {"lookup", "create", "link", "update"}
  /\ \E ok \in BOOLEAN :
       \E c \in {IF conn.pc \in {"link", "update"} THEN begin(conn)
                 ELSE conn} :
         conn' = [c EXCEPT !.pc =
                    CASE ~ok -> "rollback"
                      [] ok /\ conn.pc = "lookup" ->
                           CASE conn.acct = "none" -> "rollback"
                             [] conn.acct = "nocontact" -> "create"
                             [] OTHER -> "update"
                      [] ok /\ conn.pc = "create" -> "link"
                      [] OTHER -> "commit"]
  /\ UNCHANGED <<rows, log, tx, pkSeq, tokSeq, registered, grants, req,
                 trace, lockers, nReq, nLock, lastLock, hist,
                 subs, subCall, feathers, lastFeather>>

\* changeUserInfo.commit: client.query("COMMIT;").then(resolve), and
\* conn.done() at once
UserCommit ==
  /\ conn.pc = "commit"
  /\ conn' = [conn EXCEPT !.pc = "committing", !.released = @ + 1,
                          !.stmts = Append(@, "COMMIT")]
  /\ UNCHANGED <<rows, log, tx, pkSeq, tokSeq, registered, grants, req,
                 trace, lockers, nReq, nLock, lastLock, hist,
                 subs, subCall, feathers, lastFeather>>

\* changeUserInfo.rollback, the handler of .catch: without a client
\* (db.connect rejected) conn.client throws; else ROLLBACK is issued,
\* conn.done() called and rollback's own promise resolved. Nothing
\* settles the promise changeUserInfo returned
UserRollback ==
  /\ conn.pc = "rollback"
  /\ conn' = IF ~conn.held THEN [conn EXCEPT !.pc = "done"]
             ELSE [conn EXCEPT !.pc = "rollingback", !.released = @ + 1,
                               !.stmts = Append(@, "ROLLBACK")]
  /\ UNCHANGED <<rows, log, tx, pkSeq, tokSeq, registered, grants, req,
                 trace, lockers, nReq, nLock, lastLock, hist,
                 subs, subCall, feathers, lastFeather>>

\* The statement completes. After COMMIT commit resolves, and
\* .then(resolve) resolves the promise changeUserInfo returned; rollback
\* has resolved its own promise already
Completes ==
  /\ conn.pc \in {"committing", "rollingback"}
  /\ conn' = [conn EXCEPT !.pc = "done", !.inTx = FALSE,
                          !.promise = IF conn.pc = "committing"
                                      THEN "resolved" ELSE @]
  /\ UNCHANGED <<rows, log, tx, pkSeq, tokSeq, registered, grants, req,
                 trace, lockers, nReq, nLock, lastLock, hist,
                 subs, subCall, feathers, lastFeather>>

NextUser ==
  \/ ChangeUserInfo
  \/ Connect
  \/ UserBegin
  \/ NestedRequest
  \/ UserCommit
  \/ UserRollback
  \/ Completes

SpecUser == Init /\ [][NextUser]_vars

\* The event loop runs every callback that is due and the database
\* completes every statement issued
SpecUserLive == SpecUser /\ WF_vars(NextUser)

\* ------------------------------------------------------------ properties
\* The CRUD service of the request's method has run: pre / post hold the
\* database as the request's client saw it right before and right after.
PatchRan == req.method = "PATCH" /\ req.post # <<>>
DeleteRan == req.method = "DELETE" /\ req.post # <<>>
PreRow == RowOf(req.pre[1], req.id)
PostRow == RowOf(req.post[1], req.id)
LockMessage == "Record is locked by"

\* C1: a PATCH with a non-empty patch list on a record locked with event
\* key K by user U, made with an event key other than K, is rejected with
\* "Record is locked by U" and leaves the record as it was.
C1_LockedPatchRejected ==
  (/\ PatchRan
   /\ req.data # <<>>
   /\ ~Catalog[req.name].isChild
   /\ PreRow.lock # NoLock
   /\ PreRow.lock.eventkey # req.eventkey)
  => /\ req.err = LockMessage
     /\ req.user = PreRow.lock.username
     /\ req.post = req.pre

C3_LockIffUnlocked ==
  (lastLock.done /\ lastLock.valid)
  => /\ lastLock.ok <=> (lastLock.existed /\ lastLock.saw = NoLock)
     /\ lastLock.saw # NoLock => ~lastLock.ok
     /\ \A c \in Callers :
          lockers[c].pc = "lock" =>
            lockers[c].existed /\ lockers[c].saw = NoLock

\* C3 (frame): a step in which a lock call is rejected changes no row.
C3_RejectKeepsLock ==
  [][(lastLock' # lastLock /\ ~lastLock'.ok) => rows' = rows]_vars

C3_Witness ==
  /\ lastLock.done /\ lastLock.valid /\ ~lastLock.ok
  /\ lastLock.saw # NoLock
  /\ \E p \in Pks : rows[p].id = lastLock.id /\ rows[p].lock = lastLock.saw

C6_EmptyPatchNoChange ==
  (PatchRan /\ req.data = <<>>)
  => /\ req.err = ""
     /\ req.ids = {}
     /\ req.post = req.pre
     /\ req.pc = "done" => (req.ok /\ PatchRan)

C6_Witness ==
  /\ PatchRan /\ req.data = <<>> /\ req.pc = "done" /\ req.ok
  /\ PreRow.lock # NoLock
  /\ PostRow.lock = PreRow.lock

\* A completed GET that resolved, and whether it asks for the object id
GetDone == req.pc = "done" /\ req.method = "GET" /\ req.ok
Asks(id) ==
  /\ req.id \in {0, id}
  /\ \E p \in Pks : rows[p].id = id /\ InTable(rows[p].feather, req.name)

PreChildren ==
  {c \in Pks : /\ req.pre[1].rows[c].feather = Catalog[req.name].parentOf
               /\ req.pre[1].rows[c].parent = req.id
               /\ ~req.pre[1].rows[c].isDeleted}

\* C8: a DELETE of an existing, unlocked parent succeeds and leaves the
\* parent and every child of its parentOf array deleted in the request's
\* transaction, in the mode of the request.
C8_DeleteCascades ==
  (/\ DeleteRan
   /\ req.su \/ isAuthorized("canDelete")
   /\ Catalog[req.name].parentOf # ""
   /\ PreRow # NoRow
   /\ ~PreRow.isDeleted
   /\ PreRow.lock = NoLock)
  => /\ req.err = ""
     /\ \A c \in PreChildren :
          IF req.isHard THEN req.post[1].rows[c] = NoRow
          ELSE req.post[1].rows[c].isDeleted

\* The inheritance chain of feather n, from n up to Object
RECURSIVE Chain(_)
Chain(n) ==
  IF n = "Object" THEN <<"Object">>
  ELSE <<n>> \o Chain(ParentOfFeather(n))

HasBefore(f) == <<req.method, f, TRIGGER_BEFORE>> \in registered
HasAfter(f) == <<req.method, f, TRIGGER_AFTER>> \in registered
Events(e, fs) == [i \in 1..Len(fs) |-> Ev(e, fs[i])]

\* What a request that commits issues, from the first trigger on: the
\* BEFORE triggers registered along the chain, the CRUD operation, the
\* AFTER triggers registered along the chain, COMMIT.
ExpectedTrace ==
  Events("BEFORE", SelectSeq(Chain(req.name), HasBefore))
    \o <<Ev("CRUD", "")>>
    \o Events("AFTER", SelectSeq(Chain(req.name), HasAfter))
    \o <<Ev("COMMIT", "")>>

NotTxEvent(e) == e.ev \notin {"BEGIN", "ROLLBACK"}
IsCommit(e) == e.ev = "COMMIT"
IsCrud(e) == e.ev = "CRUD"
IsPrefix(s, t) == Len(s) <= Len(t) /\ SubSeq(t, 1, Len(s)) = s

\* C9: the trigger calls, the CRUD operation and the COMMIT of a top-level
\* POST, PATCH or DELETE happen in the order: registered BEFORE triggers
\* from the feather towards Object, each once; CRUD; registered AFTER
\* triggers in the same order, each once; COMMIT.
C9_TriggerOrder ==
  req.method \in {"POST", "PATCH", "DELETE"}
  => /\ IsPrefix(SelectSeq(trace, NotTxEvent), ExpectedTrace)
     /\ (req.pc = "done" /\ req.ok)
          => SelectSeq(trace, NotTxEvent) = ExpectedTrace
     /\ req.pc = "commit"
          => Append(SelectSeq(trace, NotTxEvent), Ev("COMMIT", ""))
               = ExpectedTrace

C9_Witness ==
  /\ req.pc = "done" /\ req.ok
  /\ req.method = "PATCH" /\ req.name = "Order"
  /\ SelectSeq(trace, NotTxEvent)
       = <<Ev("BEFORE", "Order"), Ev("BEFORE", "Document"), Ev("CRUD", ""),
           Ev("AFTER", "Document"), Ev("COMMIT", "")>>

\* C10: when a BEFORE or AFTER trigger of a top-level POST, PATCH or DELETE
\* throws, the request ends rejected with ROLLBACK issued last and no
\* COMMIT, and the committed rows and change log are those the request
\* started from.
C10_TriggerThrowRollsBack ==
  (req.err = "trigger" /\ req.pc = "done")
  => /\ ~req.ok
     /\ trace # <<>> /\ trace[Len(trace)] = Ev("ROLLBACK", "")
     /\ SelectSeq(trace, IsCommit) = <<>>
     /\ tx = NoTx
     /\ rows = req.snap[1].rows
     /\ log = req.snap[1].log

C10_Witness ==
  /\ req.err = "trigger" /\ req.pc = "done"
  /\ SelectSeq(trace, IsCrud) # <<>>
  /\ req.post # <<>> /\ req.post # req.pre
  /\ rows = req.snap[1].rows

\* The CRUD service of a POST or PATCH has run and resolved
WriteRan == req.method \in {"POST", "PATCH"} /\ req.post # <<>> /\ req.err = ""

\* The name stored by the request's CRUD service: of the patched record,
\* or of the inserted one
StoredNames ==
  IF req.method = "PATCH" THEN {PostRow.name}
  ELSE {RowOf(req.post[1], i).name : i \in req.ids}

\* C11: when a BEFORE trigger assigned newRec.name, the CRUD service that
\* then ran stored that name, for every inheritance chain (a trigger
\* registered on Object included).
C11_MutationCommitted ==
  (WriteRan /\ req.mutated) => StoredNames = {req.newName}

\* A trigger function has been called in the current request
TriggerCalled == \E i \in 1..Len(trace) : trace[i].ev \in {"BEFORE", "AFTER"}

\* What getOld would have read when the request was made
OldAtStart ==
  doSelectOne(req.snap[1], req.name, req.id, FALSE, FALSE, "true").row

\* C12: in every trigger called for a PATCH or DELETE request, BEFORE or
\* AFTER, first of the request or not, oldRec holds the values the record
\* had before the request was made.
C12_OldRecIsPreRequest ==
  (req.method \in {"PATCH", "DELETE"} /\ TriggerCalled)
  => req.oldRec = OldAtStart

\* The request issued the statement e on its client
Issued(e) == \E i \in 1..Len(trace) : trace[i].ev = e

\* C13: a request made with payload.client never issues COMMIT or
\* ROLLBACK on that client, whether it resolves or rejects; what its CRUD
\* service wrote stays in the caller's transaction (no AFTER trigger
\* having written since).
C13_NestedNeverEnds ==
  req.external
  => /\ ~Issued("COMMIT")
     /\ ~Issued("ROLLBACK")
     /\ req.pc = "done" /\ req.post # <<>> /\ tx.open /\ ~Issued("AFTER")
          => \A p \in Pks : req.post[1].rows[p] = View.rows[p]

C13_Witness ==
  /\ req.external /\ req.pc = "done" /\ ~req.ok
  /\ tx.open /\ tx.touched # {}
  /\ Issued("AFTER")

\* C14: a request made with payload.client never issues BEGIN on that
\* client, for every method and path.
C14_NestedNeverBegins == req.external => ~Issued("BEGIN")

\* A POST with id whose CRUD service has run and resolved
UpsertRan == req.upsert /\ req.post # <<>> /\ req.err = ""

\* The rows holding an object, and those an object with the id
Objects(v) == {p \in Pks : v.rows[p] # NoRow}
WithId(v, id) == {p \in Objects(v) : v.rows[p].id = id}

\* C15: a POST with id runs as a PATCH and creates no object when an
\* object with that id exists, and otherwise inserts exactly one object,
\* which has that id.
C15_UpsertById ==
  UpsertRan
  => IF WithId(req.pre[1], req.id) # {}
     THEN /\ req.method = "PATCH"
          /\ Objects(req.post[1]) = Objects(req.pre[1])
     ELSE /\ req.method = "POST"
          /\ Cardinality(Objects(req.post[1])) =
               Cardinality(Objects(req.pre[1])) + 1
          /\ Cardinality(WithId(req.post[1], req.id)) = 1

\* The committed database as a view
Committed == [rows |-> rows, log |-> log]

\* C16: a resolved POST with id that repeats the POST with id before it
\* leaves the record as that one left it and adds no object.
C16_UpsertIdempotent ==
  (/\ req.pc = "done" /\ req.ok /\ req.upsert /\ req.prev # <<>>
   /\ req.prev[1].name = req.name
   /\ req.prev[1].id = req.id
   /\ req.prev[1].cache = req.cache)
  => /\ Cardinality(Objects(Committed)) =
          Cardinality(Objects([rows |-> req.prev[1].rows]))
     /\ RowOf(Committed, req.id) = RowOf([rows |-> req.prev[1].rows], req.id)

\* The rows of the non-deleted objects of a feather
Live(v, feather) ==
  {p \in Objects(v) : InTable(v.rows[p].feather, feather)
                        /\ ~v.rows[p].isDeleted}

\* C17: no two non-deleted objects of a feather with a natural key hold
\* the same value in it, and a POST or a PATCH changing the natural key to
\* a value another object holds is rejected.
C17_NaturalKeyUnique ==
  /\ \A p, q \in Live(Committed, "Contact") :
        rows[p].name = rows[q].name => p = q
  /\ (req.post # <<>> /\ req.err = "" /\ NaturalKey(req.name))
     => \A p, q \in Live(req.post[1], "Contact") :
          req.post[1].rows[p].name = req.post[1].rows[q].name => p = q

\* C18: a POST rejected because its natural-key value is in use surfaces
\* from the request as an error with statusCode 409.
C18_DuplicateKeyIs409 ==
  (req.pc = "done" /\ req.method = "POST" /\ req.err = NotUnique)
  => req.status = 409

NotAuthorized == {"Not authorized to create", "Not authorized to update",
                  "Not authorized to delete"}

\* C19: every authorization failure (create, update, delete) surfaces
\* from the request as an error with statusCode 401.
C19_AuthFailureIs401 ==
  (req.pc = "done" /\ req.err \in NotAuthorized) => req.status = 401

\* The CRUD service of the request has run and changed rows or log
Modified == req.post # <<>> /\ req.post # req.pre

\* The action of the method the request was made with
ActionOf(method) ==
  CASE method = "POST" -> "canCreate"
    [] method = "PATCH" -> "canUpdate"
    [] OTHER -> "canDelete"

Rejected == req.pc = "done" /\ ~req.ok

\* C21: every rejection of a top-level request is an error object with a
\* statusCode (500 when the cause had none), on every failure path, a
\* failed GET included.
C21_RejectionHasStatus == Rejected => req.status # 0

\* --------------------------------------------------------- subscriptions
\* The rows a subscribe call is to insert
NewRows(c) ==
  {SubRow(c.sub, ObjTarget(i)) : i \in c.ids}
  \cup IF c.table = "" THEN {}
       ELSE {SubRow(c.sub, TableTarget(toSnakeCase(c.table)))}
ValidSub(sub) ==
  sub.given /\ sub.nodeId # "" /\ sub.sessionId # "" /\ sub.id # ""
Mine(tbl, c) == RowsOf(tbl, c.sub.id)
Others(tbl, c) == SubRows(tbl) \ Mine(tbl, c)
Subscribed == subCall.op = "subscribe" /\ ValidSub(subCall.sub)

\* C22: after events.subscribe without merge the rows of the subscription
\* id are exactly the rows of the given ids and of the feather; with merge
\* they are the earlier rows together with these. The rows of the other
\* subscription ids are the same rows, as many times, as before.
C22_SubscribeRows ==
  Subscribed =>
    /\ Others(subs, subCall) = Others(subCall.before, subCall)
    /\ \A r \in Others(subs, subCall) :
         CopiesIn(r, subs.rows) = CopiesIn(r, subCall.before.rows)
    /\ ~subCall.sub.merge => Mine(subs, subCall) = NewRows(subCall)
    /\ subCall.sub.merge =>
         Mine(subs, subCall) =
           Mine(subCall.before, subCall) \cup NewRows(subCall)

\* A subscribe without merge removed an earlier row of its subscription id
\* while a row of another subscription id stayed
C22_Witness ==
  /\ Subscribed
  /\ ~subCall.sub.merge
  /\ Mine(subCall.before, subCall) \ NewRows(subCall) # {}
  /\ NewRows(subCall) # {}
  /\ Others(subs, subCall) # {}
\* A subscribe with merge added rows to earlier ones
C22_WitnessMerge ==
  /\ Subscribed
  /\ subCall.sub.merge
  /\ Mine(subCall.before, subCall) \ NewRows(subCall) # {}
  /\ NewRows(subCall) \ Mine(subCall.before, subCall) # {}

\* C23: a subscribe whose row (for an object id or for a feather) is
\* already in the table succeeds and leaves that row in the table once.
C23_SubscribeIdempotent ==
  Subscribed =>
    \A r \in NewRows(subCall) \cap SubRows(subCall.before) :
      subCall.ok /\ CopiesIn(r, subs.rows) = 1

\* A GET with a subscription resolved with at least one object
Selected ==
  /\ req.pc = "done" /\ req.method = "GET" /\ req.ok
  /\ ValidSub(req.subscription) /\ subCall.select
  /\ req.ids # {}
FeatherRow == SubRow(req.subscription, TableTarget(toSnakeCase(req.name)))

\* C24: after a doSelect with a subscription that returned objects (one
\* fetched by id, or a list) the subscription has a row for the id of every
\* returned object; for a list, when merge is not set, it has the row of
\* the feather exactly when there was no filter or a filter with neither
\* criteria nor limit.
C24_SelectSubscribes ==
  Selected =>
    /\ \A i \in req.ids :
         SubRow(req.subscription, ObjTarget(i)) \in SubRows(subs)
    /\ (req.id = 0 /\ ~req.subscription.merge) =>
         (FeatherRow \in SubRows(subs)
            <=> \/ ~req.filter.given
                \/ ~req.filter.hasCriteria /\ ~limitSet(req.filter))

\* C25: a filtered query with limit = 0 returns no object and adds no row
\* to the subscription table.
C25_LimitZeroEmpty ==
  (/\ req.pc = "done" /\ req.method = "GET" /\ req.id = 0 /\ req.ok
   /\ req.filter.given /\ req.filter.hasLimit /\ req.filter.limit = 0) =>
    /\ req.ids = {}
    /\ subCall.select => SubRows(subs) \subseteq SubRows(subCall.before)

\* C30: a select whose filter has one criterion with the value null
\* succeeds and returns exactly the visible rows whose column for that
\* property is NULL.
C30_NullCriterion ==
  (/\ req.pc = "done" /\ req.method = "GET" /\ req.id = 0
   /\ ~Catalog[req.name].isChild
   /\ req.filter.given /\ req.filter.hasCriteria
   /\ Len(req.filter.criteria) = 1
   /\ req.filter.criteria[1].kind = "null"
   /\ req.filter.criteria[1].property = "lock") =>
    /\ req.ok
    /\ req.ids = {rows[pk].id : pk \in
                   {k \in Pks : /\ Visible([rows |-> rows], k, req.name,
                                           req.showDeleted, Str(req.su))
                                /\ rows[k].lock = NoLock}}

\* ------------------------------------------------------------ change log
\* The log entries committed since the request started
NewLog == SubSeq(log, Len(req.snap[1].log) + 1, Len(log))
Unlocked(rs) == [p \in Pks |-> [rs[p] EXCEPT !.lock = NoLock]]

\* C27: a top-level POST, PATCH or DELETE that succeeded and changed the
\* database has committed exactly one log entry, with its action and the
\* id of its object; one that was rolled back has left neither a change
\* (locks aside) nor a log entry.
C27_OneLogEntry ==
  /\ (/\ req.pc = "done" /\ req.ok /\ ~req.external /\ Modified
      /\ req.method \in {"POST", "PATCH", "DELETE"}) =>
       /\ Len(NewLog) = 1
       /\ NewLog[1].action = req.method
       /\ NewLog[1].objectId = IF req.method = "POST"
                               THEN CHOOSE i \in req.ids : TRUE
                               ELSE req.id
  /\ (req.pc = "done" /\ ~req.ok /\ ~req.external /\ Issued("ROLLBACK")) =>
       /\ NewLog = <<>>
       /\ Unlocked(rows) = Unlocked(req.snap[1].rows)

\* ---------------------------------------------------------- PATCH response
\* The record the client holds after a PATCH: its copy from before the
\* update, with the patches it sent and then the response applied
ClientCopy ==
  applyRec(applyPatch(sanitize(PreRow), req.cache), req.resp[1])
PatchAnswered == req.method = "PATCH" /\ req.resp # <<>>

RECURSIVE Nearest(_, _, _)
Nearest(st, n, k) ==
  IF st[n][k].declared THEN n
  ELSE IF n = "Object" THEN ""
  ELSE Nearest(st, ParentOfFeather(n), k)
Inherited ==
  lastFeather.name \notin {"", "Object"} /\ lastFeather.inherited
FeatherHas ==
  \A k \in PropKeys :
    lastFeather.props[k].present
      <=> Nearest(feathers, lastFeather.name, k) # ""
FeatherNearest ==
  \A k \in PropKeys :
    lastFeather.props[k].present =>
      lastFeather.props[k].owner = Nearest(feathers, lastFeather.name, k)
FeatherMarks ==
  \A k \in PropKeys :
    lastFeather.props[k].present =>
      (lastFeather.props[k].inheritedFrom # ""
         <=> ~feathers[lastFeather.name][k].declared)

\* C29: getFeather(F) has every property F or an ancestor declares, each
\* in the declaration nearest to F, and inheritedFrom is set on exactly
\* the properties F does not declare itself.
C29_FeatherInherits ==
  Inherited => FeatherHas /\ FeatherNearest /\ FeatherMarks

PostChildren ==
  {c \in Pks : /\ req.post[1].rows[c].feather = Catalog[req.name].parentOf
               /\ req.post[1].rows[c].parent = req.id
               /\ ~req.post[1].rows[c].isDeleted}
PreChildIds == {req.pre[1].rows[c].id : c \in PreChildren}
NewRowIds == {req.lines.rows[i].id : i \in DOMAIN req.lines.rows}

StoredNull(rs) ==
  \E p \in Pks : /\ rs[p].feather # "" /\ ~rs[p].isDeleted
                 /\ Required(rs[p].feather)
                 /\ rs[p].name = Null
\* The request's data leaves name without a value: null given, or the key
\* removed by the patch
LeavesNull ==
  /\ req.data # <<>>
  /\ toParam(req.data[Len(req.data)].value) = Null
  /\ req.method = "PATCH" => PreRow # NoRow

IsParentInsert(s) == s.op = "INSERT" /\ s.feather = req.name
IsChildInsert(s) == s.op = "INSERT" /\ s.feather = Catalog[req.name].parentOf
InsertRan ==
  /\ req.method = "POST" /\ req.post # <<>> /\ req.lines.given
  /\ Catalog[req.name].parentOf # ""
ChildFails ==
  \E i \in DOMAIN req.lines.rows : ~req.lines.rows[i].known

\* C34: a doInsert with nested rows that resolves has issued one INSERT
\* per nested row and then, last and once, the INSERT of the parent row;
\* when a nested doInsert fails it rejects and has issued no INSERT of the
\* parent row.
C34_ParentInsertLast ==
  InsertRan
  => /\ Len(SelectSeq(req.stmts, IsParentInsert)) <= 1
     /\ req.err = ""
          => /\ Len(req.stmts) = Len(req.lines.rows) + 1
             /\ IsParentInsert(req.stmts[Len(req.stmts)])
             /\ \A i \in 1..Len(req.lines.rows) : IsChildInsert(req.stmts[i])
             /\ \A i \in req.ids :
                  Cardinality({c \in Pks :
                     /\ req.post[1].rows[c].feather = "Line"
                     /\ req.post[1].rows[c].parent
                          = getKey(req.post[1], req.name, i, FALSE, "true")})
                    = Len(req.lines.rows)
     /\ ChildFails
          => /\ req.err # ""
             /\ req.pc \in {"rollback", "done"}
             /\ SelectSeq(req.stmts, IsParentInsert) = <<>>
             /\ req.pc = "done" => ~req.ok

\* An Order was inserted with two rows, the parent row last
C34_Witness ==
  /\ InsertRan /\ req.err = ""
  /\ Len(req.lines.rows) = 2
  /\ req.lines.order = <<2, 1>>
  /\ Len(req.stmts) = 3
  /\ IsParentInsert(req.stmts[3])
\* A nested insert failed after another one had inserted its row
C34_WitnessFails ==
  /\ InsertRan /\ ChildFails
  /\ req.err = "does not contain property"
  /\ Len(req.stmts) = 1 /\ IsChildInsert(req.stmts[1])

\* ------------------------------------------------------ concurrent lock calls
\* C35: of the lock calls that run concurrently on an unlocked record at
\* most one resolves true: a lock call that resolves true found the record
\* unlocked when it wrote its lock, so that it never overwrites the lock
\* another call holds.
C35_LockNotOverwritten ==
  [][(lastLock' # lastLock /\ lastLock'.ok)
       => \A p \in LockedRows(lastLock'.id) : rows[p].lock = NoLock]_vars

\* ------------------------------------------------------ getFeather's frame
\* The store as it was declared: no property carries inheritedFrom
Declared ==
  [n \in FeatherNames |->
     [k \in PropKeys |-> [feathers[n][k] EXCEPT !.inheritedFrom = ""]]]

\* C39: what a getFeather call returned, inheritedFrom marks included, is
\* what the call returns on the store as declared, whichever calls came
\* before it.
C39_GetFeatherFrame ==
  lastFeather.name # ""
    => lastFeather.props
         = getFeather(Declared, lastFeather.name,
                      lastFeather.inherited).props

\* ------------------------------------------------------ pooled client
\* C36: a top-level request that has settled has called done() exactly
\* once, whether it resolved or rejected.
C36_ReleasedOnce ==
  (req.pc = "done" /\ ~req.external) => req.released = 1

\* ------------------------------------------------------ transaction pairing
\* The statement issued last on the client of changeUserInfo
LastStmt == IF conn.stmts = <<>> THEN "" ELSE conn.stmts[Len(conn.stmts)]

\* C37: on the client of changeUserInfo and of its nested requests,
\* wrapped() is true exactly while a transaction is open, no BEGIN is
\* issued right after a BEGIN, and the client is released once, after the
\* COMMIT or ROLLBACK that ends the transaction was issued.
C37_TransactionsPaired ==
  /\ conn.wrapped = conn.inTx
  /\ \A i \in 2..Len(conn.stmts) :
       conn.stmts[i] = "BEGIN" => conn.stmts[i - 1] # "BEGIN"
  /\ conn.released <= 1
  /\ conn.released = 1 => LastStmt \in {"COMMIT", "ROLLBACK"}

\* ------------------------------------------------------ changeUserInfo settles
\* C38: the promise of every changeUserInfo call settles, and it resolves
\* only when the COMMIT has completed.
C38_Settles ==
  /\ \A n \in 1..MaxUserCalls :
       (conn.call = n /\ conn.pc = "connect")
         ~> (conn.call = n /\ conn.promise # "pending")
  /\ [](conn.promise = "resolved" => LastStmt = "COMMIT" /\ ~conn.inTx)

====
